---- MODULE Spec2Model ----
(***************************************************************************)
(* Page splitting, dual-source merging and page selection of the OCR       *)
(* pipeline (nationwide/qc_head.py, encova/combine_extractions.py,         *)
(* policy_additional_interests.py, pl_cov_additional_interests.py).        *)
(*                                                                         *)
(* A text is a sequence of tokens.  One token stands for one character or  *)
(* for one indivisible run of characters:                                  *)
(*   "="      a run of at least 50 '=' characters (a separator line)       *)
(*   "NL"     a newline, "SP" a blank, "CR" a carriage return              *)
(*   "PAGE"   the word PAGE in upper case, "Page" the same word in another *)
(*            case                                                         *)
(*   "[M]"    the text [Match <digits>]                                    *)
(*   "0".."9" a decimal digit, "$" and "," themselves                      *)
(*   "X"      any other character                                          *)
(*   "EXAMPLE", "sample", "HOW", "TO", ... words of the page text          *)
(* Offsets count tokens from 0 as Python's offsets count characters, and a *)
(* span (s, e) is the half-open range of offsets s .. e-1.                 *)
(***************************************************************************)
EXTENDS Integers, Sequences, FiniteSets, TLC

VARIABLES
    policy_text,       \* PolicyPageExtractor.policy_text; also the text given to the other splitters
    pc,                \* position inside PolicyPageExtractor.__init__
    matches,           \* _calculate_page_boundaries: matches
    i,                 \* _calculate_page_boundaries: loop index (0-based)
    boundaries,        \* _calculate_page_boundaries: boundaries, then self.page_boundaries
    sorted_pages,      \* _calculate_page_boundaries: sorted_pages
    extraction_log,    \* self.extraction_log
    called,            \* the functions that have returned
    all_markers,       \* extract_pages_from_content: all_markers after the sort
    content_pages,     \* result of extract_pages_from_content(policy_text)
    combo_pages,       \* result of _split_policy_combo_into_pages(policy_text)
    tesseract_content, \* combine_extraction_files: tesseract_content
    pymupdf_content,   \* combine_extraction_files: pymupdf_content
    interleave_pages,  \* combine_extraction_files: interleave_pages
    tesseract_pages,   \* combine_extraction_files: tesseract_pages
    pymupdf_pages,     \* combine_extraction_files: pymupdf_pages
    combined_content,  \* combine_extraction_files: combined_content, one line or text per element
    pages,             \* merge_page_ranges: pages
    buffer,            \* merge_page_ranges: buffer
    merged,            \* result of merge_page_ranges(pages, buffer)
    page_nums,         \* _expand_neighbors: page_nums
    radius,            \* _expand_neighbors: radius
    expanded,          \* result of _expand_neighbors(page_nums, radius)
    pages_with_dollars, \* result of find_pages_with_dollar_amounts()
    filter_pc,         \* position inside extract_from_policy_combo
    dollar_i,          \* _filter_pages_with_dollars: pages of the loop done
    dollar_out,        \* _filter_pages_with_dollars: out
    keyword_i,         \* _filter_pages_with_keywords: pages of the loop done
    keyword_out,       \* _filter_pages_with_keywords: out
    combined,          \* extract_from_policy_combo: combined
    max_pages,         \* _build_filtered_policy_text: max_pages
    kept,              \* _build_filtered_policy_text: kept, the pages joined into the text
    value,             \* _normalize_money: value
    normalized,        \* outcome of _normalize_money(value)
    compare_a,         \* _compare_values: a
    compare_b,         \* _compare_values: b
    equal,             \* result of _compare_values(a, b)
    certificate,       \* _qc_compare: certificate
    policy,            \* _qc_compare: policy
    checks,            \* _qc_compare: checks when the loop starts
    resolved,          \* _qc_compare: field, cert_val, pol_val of every check of the loop
    mismatches,        \* _qc_compare: mismatches
    qc_outcome,        \* how _qc_compare ended: not called, returned or raised
    api_response,      \* extract: what the call of the model gives
    extract_pc,        \* extract: position
    response_text,     \* extract: response_text
    parse_attempts,    \* extract: the calls of json.loads so far
    extract_result,    \* extract: the value returned
    certs_provided,    \* main: certs_provided
    extracted,         \* main: extracted
    class_amounts,     \* _postprocess_extraction: class1_amt, class2_amt
    has_building_limit, \* _postprocess_extraction: has_building_limit
    saved_qc,          \* main: results["qc"] as saved
    main_outcome,      \* main: not called, or the value returned
    validator,         \* the batch validator that runs: "gl", "ai" or "pl"
    validate_pc,       \* the validator: where it is
    requested,         \* the validator: the items of the certificate, for each list of validations
    result_text,       \* the validator: the answer of the collaborator, decoded
    results,           \* the validator: results
    report,            \* the validator: the report written to output_path
    num_pages,         \* extract_pdf_text: num_pages
    waiting,           \* extract_pdf_text: the pages whose worker has not finished
    ocr_results,       \* extract_pdf_text: results, in the order the workers finished
    all_text,          \* extract_pdf_text: all_text
    written,           \* extract_pdf_text: the content of the file at output_path
    ocr_pc,            \* extract_pdf_text: where it is
    extractions        \* process_all_headings: per heading match, the range and what was extracted

extractorVars == <<pc, matches, i, boundaries, sorted_pages, extraction_log>>
splitVars == <<all_markers, content_pages, combo_pages>>
combineVars == <<tesseract_content, pymupdf_content, interleave_pages, tesseract_pages,
                 pymupdf_pages, combined_content>>
rangeVars == <<pages, buffer, merged>>
expandVars == <<page_nums, radius, expanded>>

filterVars == <<filter_pc, dollar_i, dollar_out, keyword_i, keyword_out, combined, max_pages,
                kept>>
normalizeVars == <<value, normalized, compare_a, compare_b, equal>>
qcVars == <<certificate, policy, checks, resolved, mismatches, qc_outcome>>
extractVars == <<api_response, extract_pc, response_text, parse_attempts, extract_result>>
mainVars == <<certs_provided, extracted, class_amounts, has_building_limit, saved_qc, main_outcome>>
validateVars == <<validator, validate_pc, requested, result_text, results, report>>
ocrVars == <<num_pages, waiting, ocr_results, all_text, written, ocr_pc>>
headingVars == <<extractions>>
restVars == <<extractVars, mainVars, validateVars, ocrVars, headingVars>>
earlierVars == <<policy_text, extractorVars, called, splitVars, combineVars, rangeVars, expandVars,
                 pages_with_dollars, filterVars, normalizeVars, qcVars>>

vars == <<policy_text, extractorVars, called, splitVars, combineVars, rangeVars, expandVars,
          pages_with_dollars, filterVars, normalizeVars, qcVars, restVars>>

\* Number of pieces a generated document is made of.
MaxPieces == 3

---------------------------------------------------------------------------
\* Characters and the regular-expression classes over them.

Ws == {"NL", "SP", "CR"}

Digit == {"0", "1", "2", "3", "4", "5", "6", "7", "8", "9"}

UpperLetters == <<"A", "B", "C", "D", "E", "F", "G", "H", "I", "J", "K", "L", "M", "N", "O", "P", "Q", "R", "S", "T", "U", "V", "W", "X", "Y", "Z">>
LowerLetters == <<"a", "b", "c", "d", "e", "f", "g", "h", "i", "j", "k", "l", "m", "n", "o", "p", "q", "r", "s", "t", "u", "v", "w", "x", "y", "z">>

\* The place of a letter in the alphabet, 0 for another character.
letter_index(c, letters) ==
    IF \E k \in 1..Len(letters) : letters[k] = c
    THEN CHOOSE k \in 1..Len(letters) : letters[k] = c
    ELSE 0

DigitVal(c) ==
    CASE c = "0" -> 0 [] c = "1" -> 1 [] c = "2" -> 2 [] c = "3" -> 3 [] c = "4" -> 4
      [] c = "5" -> 5 [] c = "6" -> 6 [] c = "7" -> 7 [] c = "8" -> 8 [] c = "9" -> 9

\* PAGE under re.IGNORECASE, and PAGE as written.
PageAnyCase == {"PAGE", "Page"}
PageUpper == {"PAGE"}

Max(S) == CHOOSE x \in S : \A y \in S : y <= x
Min(S) == CHOOSE x \in S : \A y \in S : x <= y

\* The character at offset o, "EOF" outside the text.
Tok(t, o) == IF o >= 0 /\ o < Len(t) THEN t[o + 1] ELSE "EOF"

\* t[a:b]
Slice(t, a, b) == IF b <= a THEN <<>> ELSE SubSeq(t, a + 1, b)

\* The offset after the longest run of characters of S that starts at o.
RECURSIVE RunEnd(_, _, _)
RunEnd(t, o, S) == IF Tok(t, o) \in S THEN RunEnd(t, o + 1, S) ELSE o

\* int(t[a:b]) of a run of digits.
RECURSIVE IntOf(_, _, _)
IntOf(t, a, b) == IF b <= a THEN 0 ELSE 10 * IntOf(t, a, b - 1) + DigitVal(Tok(t, b - 1))

\* ={50,}\s*\n at offset o, before a character that is not white space: the
\* offsets at which the rest of the pattern goes on.
BarWsNl(t, o) ==
    LET b == RunEnd(t, o, {"="})
        w == RunEnd(t, b, Ws)
    IN  IF b > o /\ w > b /\ Tok(t, w - 1) = "NL" THEN {w} ELSE {}

\* \s*\n={50,} at offset d: the offsets at which the match ends.
WsNlBar(t, d) ==
    LET w == RunEnd(t, d, Ws)
        e == RunEnd(t, w, {"="})
    IN  IF w > d /\ Tok(t, w - 1) = "NL" /\ e > w THEN {e} ELSE {}

\* \s*\n at offset d, ending the pattern: greedy, so the match ends after the
\* last newline of the white space that follows.
WsNl(t, d) ==
    LET w == RunEnd(t, d, Ws)
        N == {o \in d..(w - 1) : Tok(t, o) = "NL"}
    IN  IF N = {} THEN {} ELSE {Max(N) + 1}

\* PAGE\s+(\d+) at offset w: the run of digits, as {[from, to]}.
PageNumber(t, w, words) ==
    LET s == RunEnd(t, w + 1, Ws)
        d == RunEnd(t, s, Digit)
    IN  IF Tok(t, w) \in words /\ s > w + 1 /\ d > s THEN {[from |-> s, to |-> d]} ELSE {}

Found(t, o, n, e) == [start |-> o, end |-> e, num |-> IntOf(t, n.from, n.to)]

\* The match of a page-marker pattern at offset o: a set of at most one
\* [start, end, num].
MatchAt(pat, t, o) ==
    CASE pat = "standard" ->
           \* ={50,}\s*\nPAGE\s+(\d+)\s*\n={50,}
           UNION {UNION {{Found(t, o, n, e) : e \in WsNlBar(t, n.to)}
                         : n \in PageNumber(t, w, PageAnyCase)} : w \in BarWsNl(t, o)}
      [] pat = "one_separator" ->
           \* ={50,}\s*\nPAGE\s+(\d+)\s*\n
           UNION {UNION {{Found(t, o, n, e) : e \in WsNl(t, n.to)}
                         : n \in PageNumber(t, w, PageAnyCase)} : w \in BarWsNl(t, o)}
      [] pat = "no_separator" ->
           \* \nPAGE\s+(\d+)\s*\n
           IF Tok(t, o) # "NL" THEN {}
           ELSE UNION {{Found(t, o, n, e) : e \in WsNl(t, n.to)}
                       : n \in PageNumber(t, o + 1, PageAnyCase)}
      [] pat = "lowercase" ->
           \* ={50,}\s*\nPage\s+(\d+)\s*\n={50,}
           UNION {UNION {{Found(t, o, n, e) : e \in WsNlBar(t, n.to)}
                         : n \in PageNumber(t, w, PageAnyCase)} : w \in BarWsNl(t, o)}
      [] pat = "fallback" ->
           \* PAGE\s+(\d+)
           {Found(t, o, n, n.to) : n \in PageNumber(t, o, PageAnyCase)}
      [] pat = "match" ->
           \* ={50,}\s*\n\[Match\s+\d+\]\s+Page\s+(\d+)\s*\n={50,}
           UNION {UNION {{Found(t, o, n, e) : e \in WsNlBar(t, n.to)}
                         : n \in IF Tok(t, w) = "[M]" /\ RunEnd(t, w + 1, Ws) > w + 1
                                 THEN PageNumber(t, RunEnd(t, w + 1, Ws), PageAnyCase)
                                 ELSE {}} : w \in BarWsNl(t, o)}
      [] pat = "count" ->
           \* PAGE\s+\d+ (case-sensitive)
           {Found(t, o, n, n.to) : n \in PageNumber(t, o, PageUpper)}
      [] pat = "combo" ->
           \* ^={40,}\nPAGE\s+(\d+)\n={40,}\n (re.MULTILINE, case-sensitive)
           LET b == RunEnd(t, o, {"="})
           IN  IF ~(o = 0 \/ Tok(t, o - 1) = "NL") \/ b = o \/ Tok(t, b) # "NL" THEN {}
               ELSE UNION {{Found(t, o, n, e + 1)
                            : e \in {x \in {RunEnd(t, n.to + 1, {"="})}
                                     : /\ Tok(t, n.to) = "NL"
                                       /\ x > n.to + 1
                                       /\ Tok(t, x) = "NL"}}
                           : n \in PageNumber(t, b + 1, PageUpper)}

\* list(re.finditer(pat, t)): the leftmost, non-overlapping matches from pos on.
RECURSIVE finditer(_, _, _)
finditer(pat, t, pos) ==
    LET starts == {o \in pos..(Len(t) - 1) : MatchAt(pat, t, o) # {}}
    IN  IF starts = {} THEN <<>>
        ELSE LET m == CHOOSE x \in MatchAt(pat, t, Min(starts)) : TRUE
             IN  <<m>> \o finditer(pat, t, m.end)

---------------------------------------------------------------------------
\* The documents the model runs on: up to MaxPieces pieces, each a page
\* marker of one of the shapes the OCR tools and qc_head write, or a
\* character of page text.

MarkerStd(d) == <<"=", "NL", "PAGE", "SP", d, "NL", "=", "NL">>
MarkerOneSep(d) == <<"=", "NL", "PAGE", "SP", d, "NL">>
MarkerBare(d) == <<"NL", "PAGE", "SP", d, "NL">>
MarkerInline(d) == <<"Page", "SP", d>>
MarkerMatch(d) == <<"=", "NL", "[M]", "SP", "Page", "SP", d, "NL", "=", "NL">>

SplitPieces ==
    UNION {{MarkerStd(d), MarkerOneSep(d), MarkerBare(d), MarkerInline(d), MarkerMatch(d)}
           : d \in {"1", "2"}}
    \cup {<<"X">>, <<"NL">>, <<"CR">>}

RECURSIVE Concat(_)
Concat(ps) == IF ps = <<>> THEN <<>> ELSE Head(ps) \o Concat(Tail(ps))

Documents(pieces, n) == {Concat(ps) : ps \in UNION {[1..k -> pieces] : k \in 0..n}}

---------------------------------------------------------------------------
\* PolicyPageExtractor (nationwide/qc_head.py)

page_patterns == <<"standard", "one_separator", "no_separator", "lowercase">>

\* The pattern loop without its break: the last pattern that finds any match
\* supplies the matches.
RECURSIVE last_pattern_matches(_, _)
last_pattern_matches(t, k) ==
    IF k > Len(page_patterns) THEN <<>>
    ELSE LET found == finditer(page_patterns[k], t, 0)
             later == last_pattern_matches(t, k + 1)
         IN  IF later # <<>> THEN later ELSE found

\* The pattern loop of _calculate_page_boundaries: the matches of the first
\* pattern that finds any, from pattern number k on.
RECURSIVE first_pattern_matches(_, _)
first_pattern_matches(t, k) ==
    IF k > Len(page_patterns) THEN <<>>
    ELSE LET found == finditer(page_patterns[k], t, 0)
         IN  IF found # <<>> THEN found ELSE first_pattern_matches(t, k + 1)

\* matches after the pattern loop and the fallback.
page_markers(t) ==
    LET m == first_pattern_matches(t, 1)
    IN  IF m # <<>> THEN m ELSE finditer("fallback", t, 0)

\* dict assignment b[k] = v
Put(b, k, v) == [p \in DOMAIN b \cup {k} |-> IF p = k THEN v ELSE b[p]]

\* sorted(b.items(), key=lambda x: x[1][0]) as a sequence of <<num, start, end>>.
RECURSIVE sorted_by_start(_, _)
sorted_by_start(b, keys) ==
    IF keys = {} THEN <<>>
    ELSE LET k == CHOOSE p \in keys :
                    \A q \in keys : b[p][1] < b[q][1] \/ (b[p][1] = b[q][1] /\ p <= q)
         IN  <<(<<k, b[k][1], b[k][2]>>)>> \o sorted_by_start(b, keys \ {k})

\* A page marker seen again replaces what was recorded for its page.
record_page_last_wins(b, page_num, page_start, page_end) ==
    Put(b, page_num, <<page_start, page_end>>)

\* Lines 117-124: record a page, or extend the page recorded before.
record_page(b, page_num, page_start, page_end) ==
    IF page_num \notin DOMAIN b
    THEN Put(b, page_num, <<page_start, page_end>>)
    ELSE IF page_end > b[page_num][2]
         THEN Put(b, page_num, <<b[page_num][1], page_end>>)
         ELSE b

\* No clipping at all.
fix_overlap_never(b, current, next) == b

\* Lines 131-136: current and next are <<num, start, end>> of sorted_pages.
fix_overlap(b, current, next) ==
    IF current[3] > next[2] THEN Put(b, current[1], <<current[2], next[2]>>) ELSE b

\* page_end taken at the end of the next marker.
page_span_past_marker(ms, k, n) ==
    <<ms[k + 1].end, IF k < Len(ms) - 1 THEN ms[k + 2].end ELSE n>>

\* Lines 107-115: (page_start, page_end) of the marker at index k (0-based) of
\* ms in a text of n characters.
page_span(ms, k, n) ==
    <<ms[k + 1].end, IF k < Len(ms) - 1 THEN ms[k + 2].start ELSE n>>

NoLog == [exists |-> FALSE, total_pages |-> 0, errors |-> <<>>]

\* Values of decoded JSON, each with its Python type: None, and a mapping
\* without keys.
NoneValue == [kind |-> "null"]
EmptyDict == [kind |-> "dict", entries |-> <<>>]

\* No outcome yet.
NotCalled == [kind |-> "not called"]

\* The page variables with nothing called yet: the policy text, and the two
\* extraction files of combine_extraction_files.
StartPages(text, tesseract, pymupdf) ==
    /\ policy_text = text
    /\ pc = "start"
    /\ matches = <<>>
    /\ i = 0
    /\ boundaries = <<>>
    /\ sorted_pages = <<>>
    /\ extraction_log = NoLog
    /\ called = {}
    /\ all_markers = <<>>
    /\ content_pages = <<>>
    /\ combo_pages = <<>>
    /\ tesseract_content = tesseract
    /\ pymupdf_content = pymupdf
    /\ interleave_pages = TRUE
    /\ tesseract_pages = <<>>
    /\ pymupdf_pages = <<>>
    /\ combined_content = <<>>
    /\ pages = <<>>
    /\ buffer = 0
    /\ merged = <<>>
    /\ page_nums = <<>>
    /\ radius = 0
    /\ expanded = <<>>
    /\ pages_with_dollars = <<>>
    /\ filter_pc = "start"
    /\ dollar_i = 0
    /\ dollar_out = <<>>
    /\ keyword_i = 0
    /\ keyword_out = <<>>
    /\ combined = <<>>
    /\ max_pages = NoneValue
    /\ kept = <<>>

\* The arguments of _normalize_money and _compare_values, nothing called yet.
StartValues(v, x, y) ==
    /\ value = v
    /\ normalized = NotCalled
    /\ compare_a = x
    /\ compare_b = y
    /\ equal = NotCalled

\* The arguments of _qc_compare, nothing called yet.
StartQc(cert, pol) ==
    /\ certificate = cert
    /\ policy = pol
    /\ checks = <<>>
    /\ resolved = <<>>
    /\ mismatches = <<>>
    /\ qc_outcome = NotCalled

\* The call of the model and the decoding of its response, not started.
StartResponse(response) ==
    /\ api_response = response
    /\ extract_pc = "start"
    /\ response_text = <<>>
    /\ parse_attempts = 0
    /\ extract_result = NotCalled

\* main of llm4nano.py with the value extract returned, before the post-processing.
StartMain(provided, ex, amounts, building_limit) ==
    /\ certs_provided = provided
    /\ extracted = ex
    /\ class_amounts = amounts
    /\ has_building_limit = building_limit
    /\ saved_qc = NotCalled
    /\ main_outcome = NotCalled

\* A batch validator with the items it found in the certificate, before it
\* decides whether there is something to validate.
StartValidate(which, items) ==
    /\ validator = which
    /\ validate_pc = "start"
    /\ requested = items
    /\ result_text = NotCalled
    /\ results = NotCalled
    /\ report = NotCalled

\* No batch validator runs.
NoValidate == StartValidate("none", <<>>)

\* extract_pdf_text on a PDF of n pages, the pages handed to the workers.
StartOcr(n) ==
    /\ num_pages = n
    /\ waiting = 1..n
    /\ ocr_results = <<>>
    /\ all_text = <<>>
    /\ written = NotCalled
    /\ ocr_pc = "workers"

\* process_all_headings not called.
NoHeadings == extractions = <<>>

\* The tools that are not part of a specification, not started.
NoOthers == StartOcr(0) /\ NoHeadings

\* The other tools, not started.
StartRest ==
    /\ StartResponse(NotCalled)
    /\ StartMain(FALSE, NotCalled, <<NoneValue, NoneValue>>, FALSE)
    /\ NoValidate
    /\ NoOthers

StartRecords(cert, pol) == StartQc(cert, pol) /\ StartRest

\* The state with nothing called yet.
StartFiles(text, tesseract, pymupdf) ==
    /\ StartPages(text, tesseract, pymupdf)
    /\ StartValues(NoneValue, NoneValue, NoneValue)
    /\ StartRecords(EmptyDict, EmptyDict)

\* The state before PolicyPageExtractor(policy_text, filename).
Start(text) == StartFiles(text, <<>>, <<>>)

Init == \E text \in Documents(SplitPieces, MaxPieces) : Start(text)

\* __init__ up to the loop over the markers: _split_into_pages, the pattern
\* loop and the fallbacks of _calculate_page_boundaries (lines 43-98).
\* self.extraction_log is assigned only after _calculate_page_boundaries has
\* returned (line 49), so the last-resort branch's
\* self.extraction_log['errors'] (line 97) raises AttributeError and no
\* extractor is constructed.
Construct ==
    /\ pc = "start"
    /\ matches' = page_markers(policy_text)
    /\ i' = 0
    /\ IF matches' = <<>>
       THEN /\ boundaries' = (1 :> <<0, Len(policy_text)>>)
            /\ pc' = IF extraction_log.exists THEN "ready" ELSE "raised"
       ELSE /\ boundaries' = <<>>
            /\ pc' = "markers"
    /\ UNCHANGED <<restVars, policy_text, sorted_pages, extraction_log, called, splitVars, combineVars,
                   rangeVars, expandVars, pages_with_dollars,
                   filterVars, normalizeVars, qcVars>>

\* One iteration of "for i, match in enumerate(matches)" (lines 101-124);
\* after the last one, line 128.
ProcessMarker ==
    /\ pc = "markers"
    /\ i < Len(matches)
    /\ LET span == page_span(matches, i, Len(policy_text))
           b == record_page(boundaries, matches[i + 1].num, span[1], span[2])
       IN  /\ boundaries' = b
           /\ IF i + 1 < Len(matches)
              THEN /\ i' = i + 1
                   /\ UNCHANGED <<restVars, pc, sorted_pages>>
              ELSE /\ i' = 0
                   /\ pc' = "overlaps"
                   /\ sorted_pages' = sorted_by_start(b, DOMAIN b)
    /\ UNCHANGED <<restVars, policy_text, matches, extraction_log, called, splitVars, combineVars,
                   rangeVars, expandVars, pages_with_dollars,
                   filterVars, normalizeVars, qcVars>>

\* One iteration of "for i in range(len(sorted_pages) - 1)" (lines 130-136).
FixOverlap ==
    /\ pc = "overlaps"
    /\ i < Len(sorted_pages) - 1
    /\ boundaries' = fix_overlap(boundaries, sorted_pages[i + 1], sorted_pages[i + 2])
    /\ i' = i + 1
    /\ UNCHANGED <<restVars, policy_text, pc, matches, sorted_pages, extraction_log, called, splitVars,
                   combineVars, rangeVars, expandVars, pages_with_dollars,
                   filterVars, normalizeVars, qcVars>>

\* _calculate_page_boundaries returns (line 138) and __init__ assigns
\* self.page_boundaries and self.extraction_log (lines 48-57).
Return ==
    /\ pc = "overlaps"
    /\ i >= Len(sorted_pages) - 1
    /\ pc' = "ready"
    /\ extraction_log' = [exists |-> TRUE,
                          total_pages |-> Len(finditer("count", policy_text, 0)),
                          errors |-> <<>>]
    /\ UNCHANGED <<restVars, policy_text, matches, i, boundaries, sorted_pages, called, splitVars,
                   combineVars, rangeVars, expandVars, pages_with_dollars,
                   filterVars, normalizeVars, qcVars>>

NewExtractor == Construct \/ ProcessMarker \/ FixOverlap \/ Return

---------------------------------------------------------------------------
\* encova/combine_extractions.py

\* s.strip(chars)
RECURSIVE lstrip(_, _)
lstrip(s, chars) == IF s # <<>> /\ Head(s) \in chars THEN lstrip(Tail(s), chars) ELSE s

RECURSIVE rstrip(_, _)
rstrip(s, chars) ==
    IF s # <<>> /\ s[Len(s)] \in chars THEN rstrip(SubSeq(s, 1, Len(s) - 1), chars) ELSE s

strip(s, chars) == rstrip(lstrip(s, chars), chars)

\* list.sort(key=lambda x: x[0]) on markers: a stable sort by start.
RECURSIVE sort_markers(_)
sort_markers(ms) ==
    IF ms = <<>> THEN <<>>
    ELSE LET rest == sort_markers(SubSeq(ms, 1, Len(ms) - 1))
             x == ms[Len(ms)]
             k == Cardinality({j \in 1..Len(rest) : rest[j].start <= x.start})
         IN  SubSeq(rest, 1, k) \o <<x>> \o SubSeq(rest, k + 1, Len(rest))

\* all_markers of extract_pages_from_content before the sort (lines 23-36).
content_markers(content) ==
    LET both == finditer("standard", content, 0) \o finditer("match", content, 0)
    IN  IF both # <<>> THEN both ELSE finditer("no_separator", content, 0)

\* The loop of lines 49-62 from marker k on.
RECURSIVE collect_pages(_, _, _, _)
collect_pages(content, ms, k, seen) ==
    IF k > Len(ms) THEN <<>>
    ELSE IF ms[k].num \in seen THEN collect_pages(content, ms, k + 1, seen)
    ELSE LET page_end == IF k < Len(ms) THEN ms[k + 1].start ELSE Len(content)
         IN  <<[page_number |-> ms[k].num,
                text |-> strip(Slice(content, ms[k].end, page_end), Ws)]>>
             \o collect_pages(content, ms, k + 1, seen \cup {ms[k].num})

extract_pages_from_content(content) ==
    LET ms == sort_markers(content_markers(content))
    IN  IF ms = <<>> THEN <<[page_number |-> 1, text |-> content]>>
        ELSE collect_pages(content, ms, 1, {})

ExtractPages ==
    /\ pc \in {"ready", "raised"}
    /\ "extract_pages_from_content" \notin called
    /\ all_markers' = sort_markers(content_markers(policy_text))
    /\ content_pages' = extract_pages_from_content(policy_text)
    /\ called' = called \cup {"extract_pages_from_content"}
    /\ UNCHANGED <<restVars, policy_text, extractorVars, combo_pages, combineVars, rangeVars, expandVars,
                   pages_with_dollars,
                   filterVars, normalizeVars, qcVars>>

---------------------------------------------------------------------------
\* policy_additional_interests.py, pl_cov_additional_interests.py

\* policy_text.replace("\r\n", "\n").replace("\r", "\n")
RECURSIVE normalize_newlines(_)
normalize_newlines(t) ==
    IF \A k \in 1..Len(t) : t[k] # "CR" THEN t
    ELSE IF Head(t) = "CR" THEN <<"NL">> \o normalize_newlines(IF Tok(t, 1) = "NL" THEN Tail(Tail(t)) ELSE Tail(t))
    ELSE <<Head(t)>> \o normalize_newlines(Tail(t))

_split_policy_combo_into_pages(raw) ==
    LET text == normalize_newlines(raw)
        ms == finditer("combo", text, 0)
    IN  IF ms = <<>> THEN <<[page_number |-> 0, text |-> text]>>
        ELSE [k \in 1..Len(ms) |->
                [page_number |-> ms[k].num,
                 text |-> strip(Slice(text, ms[k].start,
                                      IF k < Len(ms) THEN ms[k + 1].start ELSE Len(text)),
                                {"NL"})]]

SplitCombo ==
    /\ "extract_pages_from_content" \in called
    /\ "_split_policy_combo_into_pages" \notin called
    /\ combo_pages' = _split_policy_combo_into_pages(policy_text)
    /\ called' = called \cup {"_split_policy_combo_into_pages"}
    /\ UNCHANGED <<restVars, policy_text, extractorVars, all_markers, content_pages, combineVars,
                   rangeVars, expandVars, pages_with_dollars,
                   filterVars, normalizeVars, qcVars>>

---------------------------------------------------------------------------
\* The three page splitters run on one text.

Next == NewExtractor \/ ExtractPages \/ SplitCombo

Spec == Init /\ [][Next]_vars

---------------------------------------------------------------------------
\* Claims about the page splitters (checked under Spec).

Range(f) == {f[x] : x \in DOMAIN f}

SpanOf(b, p) == b[p][1]..(b[p][2] - 1)

\* C1: once _calculate_page_boundaries has finished, every recorded range has
\* start <= end, the ranges of two distinct pages share no offset, and each
\* page in start order ends where it was recorded to end or, when that would
\* reach into the next page, at the next page's start.
C1_NoOverlap ==
    pc = "ready" =>
        /\ \A p \in DOMAIN boundaries : boundaries[p][1] <= boundaries[p][2]
        /\ \A p1, p2 \in DOMAIN boundaries :
              p1 # p2 => SpanOf(boundaries, p1) \cap SpanOf(boundaries, p2) = {}
        /\ \A k \in 1..Len(sorted_pages) :
              LET cur == sorted_pages[k]
                  limit == IF k < Len(sorted_pages) /\ sorted_pages[k + 1][2] < cur[3]
                           THEN sorted_pages[k + 1][2] ELSE cur[3]
              IN  boundaries[cur[1]] = <<cur[2], limit>>

\* C1 witness: a finished split of at least two pages in which a page was clipped.
C1_Witness ==
    /\ pc = "ready"
    /\ Cardinality(DOMAIN boundaries) >= 2
    /\ \E k \in 1..Len(sorted_pages) : boundaries[sorted_pages[k][1]][2] < sorted_pages[k][3]

AllShapes ==
    {"standard", "one_separator", "no_separator", "lowercase", "fallback", "match", "count",
     "combo"}

NoPageMarker(t) == \A pat \in AllShapes : finditer(pat, t, 0) = <<>>

\* C2: on a text without any page marker every splitter completes and yields
\* one page spanning the text: the extractor is constructed with boundaries
\* {1: (0, len)} and a diagnostic in its log, extract_pages_from_content
\* returns [(1, text)] and _split_policy_combo_into_pages one page numbered 0.
C2_MarkerlessSucceeds ==
    NoPageMarker(policy_text) =>
        /\ pc # "raised"
        /\ pc = "ready" =>
              /\ boundaries = (1 :> <<0, Len(policy_text)>>)
              /\ extraction_log.errors # <<>>
        /\ "extract_pages_from_content" \in called =>
              content_pages = <<[page_number |-> 1, text |-> policy_text]>>
        /\ "_split_policy_combo_into_pages" \in called =>
              /\ Len(combo_pages) = 1
              /\ combo_pages[1].page_number = 0

\* The matches of the first shape of a priority list that matches anywhere.
ShapeWinner(t, priority) ==
    LET S == {a \in 1..Len(priority) : finditer(priority[a], t, 0) # <<>>}
    IN  IF S = {} THEN <<>> ELSE finditer(priority[Min(S)], t, 0)

ExtractorPriority == <<"standard", "one_separator", "no_separator", "lowercase", "fallback">>

ExtractorUsesFirstShape == pc # "start" => matches = ShapeWinner(policy_text, ExtractorPriority)

\* C3 as stated: in both splitters the markers are those of the first shape
\* that matches, extract_pages_from_content trying the standard shape, then
\* the [Match N] shape, then the bare PAGE N line.
C3_FirstShapeWins ==
    /\ ExtractorUsesFirstShape
    /\ "extract_pages_from_content" \in called =>
          all_markers = ShapeWinner(policy_text, <<"standard", "match", "no_separator">>)

\* C3 amended: _calculate_page_boundaries uses the markers of the first shape
\* that matches; extract_pages_from_content uses the standard and the
\* [Match N] markers together, in offset order, and the bare PAGE N lines
\* only when the text has neither.
C3_FirstShapeWinsAmended ==
    /\ ExtractorUsesFirstShape
    /\ "extract_pages_from_content" \in called =>
          LET std == Range(finditer("standard", policy_text, 0))
              mat == Range(finditer("match", policy_text, 0))
          IN  IF std \cup mat # {}
              THEN /\ Range(all_markers) = std \cup mat
                   /\ Len(all_markers) = Cardinality(std \cup mat)
                   /\ \A j, k \in 1..Len(all_markers) :
                         j < k => all_markers[j].start <= all_markers[k].start
              ELSE all_markers = finditer("no_separator", policy_text, 0)

\* C3 witness: an extractor whose text also holds markers of a shape it did
\* not use, and a content split that used markers of both top shapes.
C3_Witness ==
    /\ pc = "ready"
    /\ finditer("standard", policy_text, 0) # <<>>
    /\ \E m \in Range(finditer("fallback", policy_text, 0)) :
          \A u \in Range(matches) : m.start < u.start \/ m.start >= u.end
    /\ "extract_pages_from_content" \in called
    /\ \E u \in Range(all_markers) : u \in Range(finditer("match", policy_text, 0))
    /\ \E u \in Range(all_markers) : u \in Range(finditer("standard", policy_text, 0))

FirstIndex(ms, p) == Min({k \in 1..Len(ms) : ms[k].num = p})

\* The span of page p at its first marker.
FirstSpan(p) ==
    LET k == FirstIndex(matches, p)
    IN  <<matches[k].end, IF k < Len(matches) THEN matches[k + 1].start ELSE Len(policy_text)>>

\* The ends of the spans at the first n markers that carry page number p.
SeenEnds(p, n) ==
    {(IF k < Len(matches) THEN matches[k + 1].start ELSE Len(policy_text))
     : k \in {j \in 1..n : matches[j].num = p}}

\* C4: at every point of _calculate_page_boundaries a recorded page starts
\* where its first marker ends and reaches at least as far as the span of
\* that first marker; while the markers are processed its end is the largest
\* end seen at its markers so far.
C4_NeverShrinks ==
    pc \in {"markers", "overlaps", "ready"} =>
        \A p \in DOMAIN boundaries :
            /\ boundaries[p][1] = FirstSpan(p)[1]
            /\ boundaries[p][2] >= FirstSpan(p)[2]
            /\ pc = "markers" => boundaries[p][2] = Max(SeenEnds(p, i))

\* C4 witness: a page whose end was extended at a repeated marker and then
\* clipped to the next page's start.
C4_Witness ==
    /\ pc = "ready"
    /\ \E k \in 1..Len(sorted_pages) :
          LET p == sorted_pages[k][1]
          IN  /\ Cardinality({j \in 1..Len(matches) : matches[j].num = p}) >= 2
              /\ sorted_pages[k][3] > FirstSpan(p)[2]
              /\ boundaries[p][2] < sorted_pages[k][3]

DistinctNumbers(ms) == \A j, k \in 1..Len(ms) : j # k => ms[j].num # ms[k].num

InMarker(ms, o) == \E k \in 1..Len(ms) : ms[k].start <= o /\ o < ms[k].end

PagesAt(o) == {p \in DOMAIN boundaries : o \in SpanOf(boundaries, p)}

\* x is g without its leading and trailing white space.
IsStripped(x, g) ==
    \E a, b \in 0..Len(g) :
        /\ a <= b
        /\ x = Slice(g, a, b)
        /\ \A o \in 0..(a - 1) : Tok(g, o) \in Ws
        /\ \A o \in b..(Len(g) - 1) : Tok(g, o) \in Ws
        /\ x # <<>> => x[1] \notin Ws /\ x[Len(x)] \notin Ws

\* The text between marker k of ms and the next marker (or the end).
Gap(t, ms, k) == Slice(t, ms[k].end, IF k < Len(ms) THEN ms[k + 1].start ELSE Len(t))

\* The characters of t that lie in no marker of ms, in order.
RECURSIVE WithoutMarkers(_, _, _)
WithoutMarkers(t, ms, o) ==
    IF o >= Len(t) THEN <<>>
    ELSE (IF InMarker(ms, o) THEN <<>> ELSE <<Tok(t, o)>>) \o WithoutMarkers(t, ms, o + 1)

RECURSIVE ConcatTexts(_)
ConcatTexts(ps) == IF ps = <<>> THEN <<>> ELSE Head(ps).text \o ConcatTexts(Tail(ps))

\* C5 as stated: when the markers carry distinct page numbers, every
\* character outside the markers lies in exactly one page span and no marker
\* character lies in any, and the page texts of extract_pages_from_content
\* concatenate to the text without its markers.
C5_SpansReconstructInput ==
    /\ (pc = "ready" /\ DistinctNumbers(matches)) =>
          \A o \in 0..(Len(policy_text) - 1) :
              Cardinality(PagesAt(o)) = IF InMarker(matches, o) THEN 0 ELSE 1
    /\ ("extract_pages_from_content" \in called /\ all_markers # <<>>
           /\ DistinctNumbers(all_markers)) =>
          ConcatTexts(content_pages) = WithoutMarkers(policy_text, all_markers, 0)

\* C5 amended: when the markers carry distinct page numbers, every character
\* after the first marker and outside the markers lies in exactly one page
\* span, and the characters of the markers and those before the first marker
\* lie in none; extract_pages_from_content returns one page per marker, in
\* offset order, whose text is the text between that marker and the next
\* (empty when the two markers overlap) without its leading and trailing
\* white space.
C5_SpansPartitionAfterFirstMarker ==
    /\ (pc = "ready" /\ DistinctNumbers(matches)) =>
          \A o \in 0..(Len(policy_text) - 1) :
              Cardinality(PagesAt(o)) =
                  IF InMarker(matches, o) \/ o < matches[1].start THEN 0 ELSE 1
    /\ ("extract_pages_from_content" \in called /\ all_markers # <<>>
           /\ DistinctNumbers(all_markers)) =>
          /\ Len(content_pages) = Len(all_markers)
          /\ \A k \in 1..Len(all_markers) :
                /\ content_pages[k].page_number = all_markers[k].num
                /\ IsStripped(content_pages[k].text, Gap(policy_text, all_markers, k))

\* C5 witness: a finished split of two distinct pages with text before the
\* first marker, and a content split that stripped white space from a page.
C5_Witness ==
    /\ pc = "ready"
    /\ DistinctNumbers(matches)
    /\ Len(matches) >= 2
    /\ matches[1].start > 0
    /\ "extract_pages_from_content" \in called
    /\ all_markers # <<>>
    /\ DistinctNumbers(all_markers)
    /\ \E k \in 1..Len(all_markers) :
          /\ content_pages[k].text # <<>>
          /\ content_pages[k].text # Gap(policy_text, all_markers, k)

---------------------------------------------------------------------------
\* PolicyPageExtractor.merge_page_ranges (nationwide/qc_head.py)

\* Largest page number of a generated document.
MaxPage == 4
\* Length of a generated list of qualifying pages.
MaxQualifying == 3
\* Largest buffer passed to merge_page_ranges.
MaxBuffer == 2

DigitChars == <<"0", "1", "2", "3", "4", "5", "6", "7", "8", "9">>

\* str(n) of a page number, as f"PAGE {page_num}" formats it.
RECURSIVE Digits(_)
Digits(n) ==
    IF n < 10 THEN <<DigitChars[n + 1]>>
    ELSE Digits(n \div 10) \o <<DigitChars[(n % 10) + 1]>>

\* The marker the OCR tool writes before the text of page n.
PageMarker(n) == <<"NL", "=", "NL", "PAGE", "SP">> \o Digits(n) \o <<"NL", "=", "NL">>

\* sorted(S)
RECURSIVE Ascending(_)
Ascending(S) == IF S = {} THEN <<>> ELSE <<Min(S)>> \o Ascending(S \ {Min(S)})

\* The file the OCR tool writes for the pages ps, each page with the text X.
PagedDocument(ps) == Concat([k \in 1..Len(ps) |-> PageMarker(ps[k]) \o <<"X">>])

\* Documents with the pages of a non-empty subset of 1..MaxPage, and the
\* document with the pages 4..21.
RangeDocuments ==
    {PagedDocument(Ascending(S)) : S \in (SUBSET (1..MaxPage)) \ {{}}}
    \cup {PagedDocument(Ascending(4..21))}

ExampleQualifying == <<5, 6, 9, 20>>

\* The lists of pages merge_page_ranges is called with.
QualifyingLists ==
    UNION {[1..k -> 0..(MaxPage + 1)] : k \in 0..MaxQualifying} \cup {ExampleQualifying}

\* A range that is not clipped to the pages of the document.
buffered_range_unclipped(page, buf, min_page, max_page) == <<page - buf, page + buf>>

\* Lines 290-292: the range of one page with its buffer.
buffered_range(page, buf, min_page, max_page) ==
    <<Max({min_page, page - buf}), Min({max_page, page + buf})>>

\* ranges.sort(key=lambda x: x[0]): a stable sort by start.
RECURSIVE sort_ranges(_)
sort_ranges(rs) ==
    IF rs = <<>> THEN <<>>
    ELSE LET rest == sort_ranges(SubSeq(rs, 1, Len(rs) - 1))
             x == rs[Len(rs)]
             k == Cardinality({j \in 1..Len(rest) : rest[j][1] <= x[1]})
         IN  SubSeq(rest, 1, k) \o <<x>> \o SubSeq(rest, k + 1, Len(rest))

\* A range is merged into the previous one only when the two overlap.
merge_step_overlapping_only(m, r) ==
    IF m # <<>> /\ r[1] <= m[Len(m)][2]
    THEN [m EXCEPT ![Len(m)] = <<m[Len(m)][1], Max({m[Len(m)][2], r[2]})>>]
    ELSE Append(m, r)

\* Lines 300-305: one iteration of the merge loop.
merge_step(m, r) ==
    IF m # <<>> /\ r[1] <= m[Len(m)][2] + 1
    THEN [m EXCEPT ![Len(m)] = <<m[Len(m)][1], Max({m[Len(m)][2], r[2]})>>]
    ELSE Append(m, r)

RECURSIVE merge_ranges(_, _)
merge_ranges(rs, m) ==
    IF rs = <<>> THEN m ELSE merge_ranges(Tail(rs), merge_step(m, Head(rs)))

\* merge_page_ranges(pages, buffer) of an extractor with the page boundaries b.
merge_page_ranges(b, ps, buf) ==
    IF ps = <<>> THEN <<>>
    ELSE LET all_pages == DOMAIN b
             min_page == IF all_pages # {} THEN Min(all_pages) ELSE 1
             max_page == IF all_pages # {} THEN Max(all_pages) ELSE 1
             ranges == [k \in 1..Len(ps) |-> buffered_range(ps[k], buf, min_page, max_page)]
         IN  merge_ranges(sort_ranges(ranges), <<>>)

InitRanges == \E text \in RangeDocuments : Start(text)

MergePageRanges ==
    /\ pc = "ready"
    /\ "merge_page_ranges" \notin called
    /\ \E ps \in QualifyingLists, buf \in 0..MaxBuffer :
          /\ pages' = ps
          /\ buffer' = buf
          /\ merged' = merge_page_ranges(boundaries, ps, buf)
    /\ called' = called \cup {"merge_page_ranges"}
    /\ UNCHANGED <<restVars, policy_text, extractorVars, splitVars, combineVars, expandVars,
                   pages_with_dollars,
                   filterVars, normalizeVars, qcVars>>

NextRanges == NewExtractor \/ MergePageRanges

SpecRanges == InitRanges /\ [][NextRanges]_vars

---------------------------------------------------------------------------
\* Claims about merge_page_ranges (checked under SpecRanges).

\* The qualifying pages are pages of the document.
PagesFromDocument == \A k \in 1..Len(pages) : pages[k] \in DOMAIN boundaries

\* C7: for qualifying pages taken from the document and a buffer >= 0, the
\* ranges merge_page_ranges returns are sorted ascending by start, each has
\* start <= end, and consecutive ranges R1, R2 satisfy R1.end < R2.start - 1.
C7_RangesSortedAndSeparate ==
    ("merge_page_ranges" \in called /\ PagesFromDocument) =>
        /\ \A k \in 1..Len(merged) : merged[k][1] <= merged[k][2]
        /\ \A k \in 1..(Len(merged) - 1) :
              /\ merged[k][1] < merged[k + 1][1]
              /\ merged[k][2] < merged[k + 1][1] - 1

\* Several qualifying pages were merged into fewer ranges, and more than one
\* range is left.
C7_Witness ==
    /\ "merge_page_ranges" \in called
    /\ PagesFromDocument
    /\ Len(merged) >= 2
    /\ Len(merged) < Cardinality(Range(pages))

\* The pages the ranges rs cover.
Covered(rs) == UNION {rs[k][1]..rs[k][2] : k \in 1..Len(rs)}

\* The pages of the document within the buffer of a qualifying page.
WithinBuffer ==
    {p \in Min(DOMAIN boundaries)..Max(DOMAIN boundaries) :
        \E k \in 1..Len(pages) : p - pages[k] <= buffer /\ pages[k] - p <= buffer}

\* C8: the pages covered by the ranges merge_page_ranges returns are exactly
\* the pages between min_page and max_page within the buffer of a qualifying
\* page; for the pages 5, 6, 9, 20 and buffer 1 in a document of the pages
\* 4..21 the result is [(4,10),(19,21)]; an empty list of pages gives an
\* empty list.
C8_CoversExactlyBufferedPages ==
    "merge_page_ranges" \in called =>
        /\ PagesFromDocument => Covered(merged) = WithinBuffer
        /\ pages = <<>> => merged = <<>>
        /\ (pages = ExampleQualifying /\ buffer = 1 /\ DOMAIN boundaries = 4..21)
              => merged = <<(<<4, 10>>), (<<19, 21>>)>>

\* The example: the pages 5, 6, 9, 20 with buffer 1 in the document 4..21.
C8_Witness ==
    /\ "merge_page_ranges" \in called
    /\ pages = ExampleQualifying
    /\ buffer = 1
    /\ DOMAIN boundaries = 4..21
    /\ Covered(merged) = (4..10) \cup (19..21)

---------------------------------------------------------------------------
\* PolicyPageExtractor.find_pages_with_dollar_amounts (nationwide/qc_head.py)

\* Number of pieces of a generated document with dollar amounts.
MaxDollarPieces == 4

min_amount == 200

skip_patterns ==
    {<<"EXAMPLE">>, <<"CALCULATION">>, <<"HOW", "SP", "TO">>, <<"SAMPLE">>, <<"ILLUSTRATION">>}

\* c.upper() of one character or word.
upper_char(c) ==
    CASE c = "example" -> "EXAMPLE"
      [] c = "calculation" -> "CALCULATION"
      [] c = "how" -> "HOW"
      [] c = "to" -> "TO"
      [] c = "sample" -> "SAMPLE"
      [] c = "illustration" -> "ILLUSTRATION"
      [] c = "Page" -> "PAGE"
      [] c = "match" -> "MATCH"
      [] c = "Mismatch" -> "MISMATCH"
      [] c = "not_found" -> "NOT_FOUND"
      [] OTHER -> IF letter_index(c, LowerLetters) = 0 THEN c
                  ELSE UpperLetters[letter_index(c, LowerLetters)]

\* t.upper()
upper(t) == [k \in 1..Len(t) |-> upper_char(t[k])]

\* w in t
contains(t, w) == \E o \in 0..(Len(t) - Len(w)) : Slice(t, o, o + Len(w)) = w

\* any(skip in page_text_upper for skip in skip_patterns)
is_instructional(page_text) == \E skip \in skip_patterns : contains(upper(page_text), skip)

\* \$\s*([0-9,]+) at offset o: group 1, as {[from, to]}.
DollarAmount(t, o) ==
    LET s == RunEnd(t, o + 1, Ws)
        e == RunEnd(t, s, Digit \cup {","})
    IN  IF Tok(t, o) = "$" /\ e > s THEN {[from |-> s, to |-> e]} ELSE {}

\* int(match.group(1).replace(',', '')): a set of at most one integer, empty
\* when int raises ValueError.
parsed_amount(t, g) ==
    LET amount_str == SelectSeq(Slice(t, g.from, g.to), LAMBDA c : c # ",")
    IN  IF amount_str = <<>> THEN {} ELSE {IntOf(amount_str, 0, Len(amount_str))}

\* Only amounts above the minimum count.
amount_above_minimum(amount) == amount > min_amount

\* Line 259.
amount_qualifies(amount) == amount >= min_amount

\* The loop over dollar_matches (lines 252-264): some match has a significant
\* amount.
has_significant_amount(page_text) ==
    \E o \in 0..(Len(page_text) - 1) :
        \E g \in DollarAmount(page_text, o) :
            \E amount \in parsed_amount(page_text, g) : amount_qualifies(amount)

find_pages_with_dollar_amounts(t, b) ==
    Ascending({page_num \in DOMAIN b :
                  LET page_text == Slice(t, b[page_num][1], b[page_num][2])
                  IN  ~is_instructional(page_text) /\ has_significant_amount(page_text)})

\* Page markers, dollar amounts, more digits of an amount, and the words of
\* instructional pages.
DollarPieces ==
    {MarkerStd("1"), MarkerStd("2"),
     <<"$", "SP", "2", "0", "0">>, <<"$", "1", "9", "9">>, <<",", "0">>,
     <<"EXAMPLE">>, <<"sample">>, <<"HOW", "SP", "TO">>, <<"ILLUSTRATION">>, <<"CALCULATION">>}

InitDollar == \E text \in Documents(DollarPieces, MaxDollarPieces) : Start(text)

FindPagesWithDollarAmounts ==
    /\ pc = "ready"
    /\ "find_pages_with_dollar_amounts" \notin called
    /\ pages_with_dollars' = find_pages_with_dollar_amounts(policy_text, boundaries)
    /\ called' = called \cup {"find_pages_with_dollar_amounts"}
    /\ UNCHANGED <<restVars, policy_text, extractorVars, splitVars, combineVars, rangeVars, expandVars,
                   filterVars, normalizeVars, qcVars>>

NextDollar == NewExtractor \/ FindPagesWithDollarAmounts

SpecDollar == InitDollar /\ [][NextDollar]_vars

---------------------------------------------------------------------------
\* Claims about find_pages_with_dollar_amounts (checked under SpecDollar).

PageText(p) == Slice(policy_text, boundaries[p][1], boundaries[p][2])

\* The text holds EXAMPLE, SAMPLE, ILLUSTRATION, HOW TO or CALCULATION in
\* upper or lower case.
HasInstructionalMarker(t) ==
    \E o \in 0..(Len(t) - 1) :
        \/ upper_char(Tok(t, o)) \in {"EXAMPLE", "SAMPLE", "ILLUSTRATION", "CALCULATION"}
        \/ upper_char(Tok(t, o)) = "HOW" /\ Tok(t, o + 1) = "SP" /\ upper_char(Tok(t, o + 2)) = "TO"

\* The digits of the run of digits and commas that follows the $ at offset o
\* and its white space.
AmountDigits(t, o) ==
    LET s == RunEnd(t, o + 1, Ws)
    IN  SelectSeq(Slice(t, s, RunEnd(t, s, Digit \cup {","})), LAMBDA c : c \in Digit)

\* The text holds a $ amount of at least n.
HasAmountAtLeast(t, n) ==
    \E o \in 0..(Len(t) - 1) :
        /\ Tok(t, o) = "$"
        /\ AmountDigits(t, o) # <<>>
        /\ IntOf(AmountDigits(t, o), 0, Len(AmountDigits(t, o))) >= n

\* C10: find_pages_with_dollar_amounts selects a page if and only if its text
\* holds no instructional marker and holds a $ amount whose value, commas
\* removed, is at least 200; the result is ascending without repetition.
C10_DollarPagesSelected ==
    "find_pages_with_dollar_amounts" \in called =>
        /\ \A p \in DOMAIN boundaries :
              p \in Range(pages_with_dollars)
                  <=> (~HasInstructionalMarker(PageText(p)) /\ HasAmountAtLeast(PageText(p), 200))
        /\ Range(pages_with_dollars) \subseteq DOMAIN boundaries
        /\ \A k \in 1..(Len(pages_with_dollars) - 1) :
              pages_with_dollars[k] < pages_with_dollars[k + 1]

\* One page is selected, and another
\* page holds a $ amount and is not selected.
C10_Witness ==
    /\ "find_pages_with_dollar_amounts" \in called
    /\ Len(pages_with_dollars) >= 1
    /\ \E p \in DOMAIN boundaries :
          /\ p \notin Range(pages_with_dollars)
          /\ HasAmountAtLeast(PageText(p), 1)

---------------------------------------------------------------------------
\* Page selection of pl_cov_additional_interests.py:
\* validate_additional_interests, lines 424-432.

\* additional and insure under re.IGNORECASE.
AdditionalAnyCase == {"additional", "ADDITIONAL"}
InsureAnyCase == {"insure", "INSURE"}

\* _ADDITIONAL_INSURE_RE.search(text): additional\s+insure\w*
has_additional_insure(text) ==
    \E o \in 0..(Len(text) - 1) :
        /\ Tok(text, o) \in AdditionalAnyCase
        /\ RunEnd(text, o + 1, Ws) > o + 1
        /\ Tok(text, RunEnd(text, o + 1, Ws)) \in InsureAnyCase

_filter_pages_with_additional_insure(ps) ==
    LET hits == SelectSeq(ps, LAMBDA p : has_additional_insure(p.text))
    IN  [k \in 1..Len(hits) |-> hits[k].page_number]

\* _expand_neighbors(page_nums, radius)
_expand_neighbors(nums, r) ==
    IF r <= 0 THEN Ascending(Range(nums))
    ELSE Ascending({x \in Range(nums) \cup UNION {{n - k, n + k} : n \in Range(nums), k \in 1..r}
                      : x >= 0})

\* Page markers with the numbers 0..3, the phrase the filter looks for, its
\* words, and other text.
ExpandPieces ==
    {MarkerStd(d) : d \in {"0", "1", "2", "3"}}
    \cup {<<"additional", "SP", "insure">>, <<"ADDITIONAL", "NL", "INSURE">>,
          <<"additional">>, <<"insure">>, <<"X">>, <<"NL">>}

InitExpand == \E text \in Documents(ExpandPieces, MaxPieces) : Start(text)

\* Lines 424-432: split the policy, filter the pages, expand to neighbours.
ValidateAdditionalInterests ==
    /\ "validate_additional_interests" \notin called
    /\ LET ps == _split_policy_combo_into_pages(policy_text)
           ai_pages == _filter_pages_with_additional_insure(ps)
       IN  /\ combo_pages' = ps
           /\ page_nums' = ai_pages
           /\ radius' = 1
           /\ expanded' = _expand_neighbors(ai_pages, 1)
    /\ called' = called \cup {"validate_additional_interests"}
    /\ UNCHANGED <<restVars, policy_text, extractorVars, all_markers, content_pages, combineVars,
                   rangeVars, pages_with_dollars,
                   filterVars, normalizeVars, qcVars>>

NextExpand == ValidateAdditionalInterests

SpecExpand == InitExpand /\ [][NextExpand]_vars

---------------------------------------------------------------------------
\* Claims about neighbour expansion (checked under SpecExpand).

\* The page numbers present in the document.
DocumentPages == {combo_pages[k].page_number : k \in 1..Len(combo_pages)}

\* C9: every page number in the list _expand_neighbors returns lies between
\* the smallest and the largest page number present in the document.
C9_ExpandedWithinDocument ==
    "validate_additional_interests" \in called =>
        \A k \in 1..Len(expanded) :
            /\ expanded[k] >= Min(DocumentPages)
            /\ expanded[k] <= Max(DocumentPages)

---------------------------------------------------------------------------
\* combine_extraction_files (encova/combine_extractions.py), which writes the
\* elements of combined_content joined by newlines.  An element of
\* combined_content is a line or a text; the words of a fixed line are one
\* token.

\* Number of pieces of a generated extraction file.
MaxSourcePieces == 2

Bar == <<"=">>

TesseractHeader == <<"--- TESSERACT (Buffer=1) ---">>
TesseractMissing == <<"[Page not found in Tesseract extraction]">>
PymupdfHeader == <<"--- PYMUPDF (Buffer=0) ---">>
PymupdfMissing == <<"[Page not found in PyMuPDF extraction]">>

\* Lines 120-131.
HeaderLines ==
    <<Bar, <<"COMBINED EXTRACTION - TESSERACT + PYMUPDF">>, Bar, <<>>,
      <<"This document contains two extraction sources:">>,
      <<"1. TESSERACT (OCR with buffer=1)">>,
      <<"2. PYMUPDF (OCRmyPDF extraction with buffer=0)">>, <<>>,
      <<"Use the most complete/accurate version when sources differ.">>, <<>>,
      Bar, <<>> >>

\* {page_num: content for page_num, content in ps}
RECURSIVE page_dict(_)
page_dict(ps) ==
    IF ps = <<>> THEN <<>>
    ELSE Put(page_dict(SubSeq(ps, 1, Len(ps) - 1)), ps[Len(ps)].page_number, ps[Len(ps)].text)

\* Only the pages of the Tesseract extraction.
all_page_numbers_of_tesseract(tesseract_dict, pymupdf_dict) == Ascending(DOMAIN tesseract_dict)

\* Line 146: all_pages.
all_page_numbers(tesseract_dict, pymupdf_dict) ==
    Ascending(DOMAIN tesseract_dict \cup DOMAIN pymupdf_dict)

\* Lines 160-168 and 171-179: the section of one source in the block of a page.
source_section(dict, page_num, header, missing) ==
    IF page_num \in DOMAIN dict
    THEN <<header, <<>>, dict[page_num], <<>> >>
    ELSE <<header, missing, <<>> >>

\* Lines 153-181: one iteration of the loop over all_pages.
page_block(tesseract_dict, pymupdf_dict, page_num) ==
    <<Bar, <<"PAGE", "SP">> \o Digits(page_num), Bar, <<>> >>
    \o source_section(tesseract_dict, page_num, TesseractHeader, TesseractMissing)
    \o source_section(pymupdf_dict, page_num, PymupdfHeader, PymupdfMissing)
    \o << <<>> >>

\* Lines 142-181: page-by-page interleaving of the pages of the two sources.
interleaved(tesseract, pymupdf) ==
    LET tesseract_dict == page_dict(tesseract)
        pymupdf_dict == page_dict(pymupdf)
        all_pages == all_page_numbers(tesseract_dict, pymupdf_dict)
    IN  Concat([k \in 1..Len(all_pages) |-> page_block(tesseract_dict, pymupdf_dict, all_pages[k])])

\* Lines 182-207: simple concatenation.
concatenated(tesseract, pymupdf) ==
    <<Bar, <<"SOURCE 1: TESSERACT EXTRACTION (Buffer=1)">>, Bar, <<>>, tesseract, <<>>,
      Bar, <<"END OF TESSERACT EXTRACTION">>, Bar, <<>>, <<>>,
      Bar, <<"SOURCE 2: PYMUPDF EXTRACTION (Buffer=0)">>, Bar, <<>>, pymupdf, <<>>,
      Bar, <<"END OF PYMUPDF EXTRACTION">>, Bar>>

\* Pages with their text, a page without text, a [Match N] page, and text
\* without a marker.
SourcePieces ==
    {MarkerStd("1") \o <<"X", "NL">>, MarkerStd("1") \o <<"Y", "NL">>,
     MarkerStd("2") \o <<"X", "NL">>, MarkerStd("2"), MarkerMatch("3") \o <<"Y">>, <<"X">>}

SourceDocuments == Documents(SourcePieces, MaxSourcePieces)

InitMerge ==
    \E tesseract \in SourceDocuments :
        \E pymupdf \in SourceDocuments : StartFiles(<<>>, tesseract, pymupdf)

CombineExtractionFiles ==
    /\ "combine_extraction_files" \notin called
    /\ \E interleave \in BOOLEAN :
          /\ interleave_pages' = interleave
          /\ IF interleave
             THEN /\ tesseract_pages' = extract_pages_from_content(tesseract_content)
                  /\ pymupdf_pages' = extract_pages_from_content(pymupdf_content)
                  /\ combined_content' = HeaderLines \o interleaved(tesseract_pages', pymupdf_pages')
             ELSE /\ combined_content' = HeaderLines
                                            \o concatenated(tesseract_content, pymupdf_content)
                  /\ UNCHANGED <<restVars, tesseract_pages, pymupdf_pages>>
    /\ called' = called \cup {"combine_extraction_files"}
    /\ UNCHANGED <<restVars, policy_text, extractorVars, splitVars, tesseract_content, pymupdf_content,
                   rangeVars, expandVars, pages_with_dollars,
                   filterVars, normalizeVars, qcVars>>

NextMerge == CombineExtractionFiles

SpecMerge == InitMerge /\ [][NextMerge]_vars

---------------------------------------------------------------------------
\* Claims about the page-interleaved combination (checked under SpecMerge).

PageNumbersOf(ps) == {ps[k].page_number : k \in 1..Len(ps)}

\* The text a source has for page n.
OwnText(ps, n) == ps[Min({k \in 1..Len(ps) : ps[k].page_number = n})].text

TesseractPages == extract_pages_from_content(tesseract_content)
PymupdfPages == extract_pages_from_content(pymupdf_content)

\* The line PAGE <digits>.
IsPageLine(l) ==
    Len(l) >= 3 /\ l[1] = "PAGE" /\ l[2] = "SP" /\ \A k \in 3..Len(l) : l[k] \in Digit

\* The places of combined_content where a PAGE block starts: a separator, a
\* PAGE line, a separator.
BlockStarts ==
    {k \in 1..(Len(combined_content) - 2) :
        /\ combined_content[k] = Bar
        /\ IsPageLine(combined_content[k + 1])
        /\ combined_content[k + 2] = Bar}

BlockNumber(k) == IntOf(combined_content[k + 1], 2, Len(combined_content[k + 1]))

\* What follows the marker of the block at k, up to the next block.
BlockBody(k) ==
    LET later == {j \in BlockStarts : j > k}
    IN  SubSeq(combined_content, k + 3,
               IF later = {} THEN Len(combined_content) ELSE Min(later) - 1)

\* The section of a source: its own text of the page, or the placeholder.
SectionOf(ps, n, header, missing) ==
    IF n \in PageNumbersOf(ps) THEN <<header, <<>>, OwnText(ps, n), <<>> >>
    ELSE <<header, missing, <<>> >>

---------------------------------------------------------------------------
\* Page selection of policy_additional_interests.py: extract_from_policy_combo
\* up to the filtered policy text.  The two filters run as two tasks of a
\* thread pool; a step of a task is one iteration of its loop over the pages.

\* Number of pages of a generated policy file.
MaxFilterPages == 2
\* The values of neighbor_radius.
NeighborRadii == {0, 1}
\* The values of max_pages: no cap, and a cap of 0, 1 or 2 pages.
PageCaps == {[kind |-> "null"], [kind |-> "int", n |-> 0], [kind |-> "int", n |-> 1],
             [kind |-> "int", n |-> 2]}

\* The characters that are not word characters (\W), for \b.
NonWord == Ws \cup {"=", "$", ",", ".", "%", "-", "[M]", "EOF"}

\* \b at offset o
WordBoundary(t, o) == (Tok(t, o - 1) \in NonWord) # (Tok(t, o) \in NonWord)

\* _DOLLAR_RE.search(t): \$\s*\d
dollar_re(t) ==
    \E o \in 0..(Len(t) - 1) : Tok(t, o) = "$" /\ Tok(t, RunEnd(t, o + 1, Ws)) \in Digit

\* (?:,\d{3})+ at offset p: the offsets at which a match of it ends.
RECURSIVE CommaGroups(_, _)
CommaGroups(t, p) ==
    IF Tok(t, p) = "," /\ \A k \in 1..3 : Tok(t, p + k) \in Digit
    THEN {p + 4} \cup CommaGroups(t, p + 4)
    ELSE {}

\* _NUMBER_WITH_COMMAS_RE.search(t): \b\d{1,3}(?:,\d{3})+(?:\.\d+)?\b
number_with_commas_re(t) ==
    \E o \in 0..(Len(t) - 1), k \in 1..3 :
        /\ WordBoundary(t, o)
        /\ \A j \in 0..(k - 1) : Tok(t, o + j) \in Digit
        /\ \E g \in CommaGroups(t, o + k) :
              \/ WordBoundary(t, g)
              \/ /\ Tok(t, g) = "."
                 /\ \E f \in (g + 2)..RunEnd(t, g + 1, Digit) : WordBoundary(t, f)

\* _BIG_NUMBER_RE.search(t): \b\d{5,}\b
big_number_re(t) ==
    \E o \in 0..(Len(t) - 1) :
        /\ WordBoundary(t, o)
        /\ \E e \in (o + 5)..RunEnd(t, o, Digit) : WordBoundary(t, e)

\* KEYWORDS, a blank between the words of a keyword.
KEYWORDS ==
    {<<"additional", "SP", "interest">>, <<"additional", "SP", "interests">>,
     <<"additional", "SP", "insured">>, <<"additional", "SP", "insureds">>,
     <<"mortgagee">>, <<"mortgage", "SP", "holder">>, <<"mortgage", "SP", "holders">>,
     <<"mortgagees">>, <<"loss", "SP", "payee">>, <<"loss", "SP", "payable">>,
     <<"lienholder">>, <<"lien", "SP", "holder">>, <<"secured", "SP", "party">>,
     <<"secured", "SP", "parties">>, <<"payee">>,
     <<"mortgage", "SP", "holder", "SP", "name">>, <<"mortgagee", "SP", "address">>,
     <<"mortgagee", "SP", "city">>,
     <<"mortgagee", "SP", "city", "SP", "state", "SP", "zipcode">>}

\* c.lower() of one character or word.
lower_char(c) ==
    CASE c = "MORTGAGEE" -> "mortgagee"
      [] c = "LOSS" -> "loss"
      [] c = "PAYEE" -> "payee"
      [] c = "PAGE" -> "page"
      [] c = "Page" -> "page"
      [] c = "X" -> "x"
      [] c = "INCLUDED" -> "included"
      [] c = "Included" -> "included"
      [] c = "INSIDE" -> "inside"
      [] c = "Inside" -> "inside"
      [] c = "Outside" -> "outside"
      [] OTHER -> IF letter_index(c, UpperLetters) = 0 THEN c
                  ELSE LowerLetters[letter_index(c, UpperLetters)]

\* t.lower()
lower(t) == [k \in 1..Len(t) |-> lower_char(t[k])]

\* Line 97: the test of _filter_pages_with_dollars on the text of a page.
has_dollars(t) == dollar_re(t) \/ number_with_commas_re(t) \/ big_number_re(t)

\* Line 107: the test of _filter_pages_with_keywords on the text of a page.
has_keywords(t, keywords) == \E k \in keywords : contains(lower(t), k)

\* Only the pages that both filters return.
combined_pages_of_both(dollar_pages, keyword_pages) ==
    Ascending(Range(dollar_pages) \cap Range(keyword_pages))

\* Line 243: combined.
combined_pages(dollar_pages, keyword_pages) ==
    Ascending(Range(dollar_pages) \cup Range(keyword_pages))

\* An integer as a value.
IntValue(n) == [kind |-> "int", n |-> n]

\* kept.sort(key=lambda p: p.page_number): ascending by page number, pages of
\* one number in the order they had.
sort_by_page_number(ps) ==
    LET nums == Ascending({ps[k].page_number : k \in 1..Len(ps)})
    IN  Concat([k \in 1..Len(nums) |-> SelectSeq(ps, LAMBDA p : p.page_number = nums[k])])

\* Line 128: whether max_pages cuts the list.
cap_applies(cap, n) == cap.kind = "int" /\ cap.n # 0 /\ n > cap.n

\* Lines 124-129 of _build_filtered_policy_text: the pages kept.
kept_pages(ps, nums, cap) ==
    LET in_set == sort_by_page_number(SelectSeq(ps, LAMBDA p : p.page_number \in Range(nums)))
    IN  IF cap_applies(cap, Len(in_set)) THEN SubSeq(in_set, 1, cap.n) ELSE in_set

\* "\n\n".join(p.text for p in kept)
RECURSIVE join_texts(_)
join_texts(ps) ==
    IF ps = <<>> THEN <<>>
    ELSE IF Len(ps) = 1 THEN ps[1].text
    ELSE ps[1].text \o <<"NL", "NL">> \o join_texts(Tail(ps))

\* _build_filtered_policy_text(pages, page_nums, max_pages)
_build_filtered_policy_text(ps, nums, cap) == join_texts(kept_pages(ps, nums, cap))

\* Line 234: the call with its arguments, the policy file split into pages and
\* the two tasks submitted.
ExtractFromPolicyCombo ==
    /\ filter_pc = "start"
    /\ \E r \in NeighborRadii : radius' = r
    /\ \E cap \in PageCaps : max_pages' = cap
    /\ combo_pages' = _split_policy_combo_into_pages(policy_text)
    /\ filter_pc' = "filtering"
    /\ UNCHANGED <<restVars, policy_text, extractorVars, called, all_markers, content_pages, combineVars,
                   rangeVars, page_nums, expanded, pages_with_dollars, dollar_i, dollar_out,
                   keyword_i, keyword_out, combined, kept, normalizeVars, qcVars>>

\* Lines 95-99: one iteration of the loop of _filter_pages_with_dollars.
DollarTaskStep ==
    /\ filter_pc = "filtering"
    /\ dollar_i < Len(combo_pages)
    /\ dollar_i' = dollar_i + 1
    /\ dollar_out' = IF has_dollars(combo_pages[dollar_i + 1].text)
                     THEN Append(dollar_out, combo_pages[dollar_i + 1].page_number)
                     ELSE dollar_out
    /\ UNCHANGED <<restVars, policy_text, extractorVars, called, splitVars, combineVars, rangeVars,
                   expandVars, pages_with_dollars, filter_pc, keyword_i, keyword_out, combined,
                   max_pages, kept, normalizeVars, qcVars>>

\* Lines 105-108: one iteration of the loop of _filter_pages_with_keywords.
KeywordTaskStep ==
    /\ filter_pc = "filtering"
    /\ keyword_i < Len(combo_pages)
    /\ keyword_i' = keyword_i + 1
    /\ keyword_out' = IF has_keywords(combo_pages[keyword_i + 1].text, KEYWORDS)
                      THEN Append(keyword_out, combo_pages[keyword_i + 1].page_number)
                      ELSE keyword_out
    /\ UNCHANGED <<restVars, policy_text, extractorVars, called, splitVars, combineVars, rangeVars,
                   expandVars, pages_with_dollars, filter_pc, dollar_i, dollar_out, combined,
                   max_pages, kept, normalizeVars, qcVars>>

\* Lines 240-245: both results are in; combine, expand and build.
BuildFilteredText ==
    /\ filter_pc = "filtering"
    /\ dollar_i = Len(combo_pages)
    /\ keyword_i = Len(combo_pages)
    /\ combined' = combined_pages(dollar_out, keyword_out)
    /\ page_nums' = combined'
    /\ expanded' = _expand_neighbors(combined', radius)
    /\ kept' = kept_pages(combo_pages, expanded', max_pages)
    /\ filter_pc' = "done"
    /\ UNCHANGED <<restVars, policy_text, extractorVars, called, splitVars, combineVars, rangeVars,
                   radius, pages_with_dollars, dollar_i, dollar_out, keyword_i, keyword_out,
                   max_pages, normalizeVars, qcVars>>

\* The text of a page of a generated policy file.
FilterTexts ==
    {<<"X">>, <<"$", "SP", "5">>, <<"mortgagee">>, <<"X", "LOSS", "SP", "PAYEE">>,
     <<"1", ",", "0", "0", "0">>, <<"1", "2", "3", "4", "5">>,
     <<"1", "2", "3", "4", ",", "0", "0">>}

\* A policy file whose pages have the numbers nums and the texts texts.
FilterDocument(nums, texts) ==
    Concat([k \in 1..Len(nums) |-> PageMarker(nums[k]) \o texts[k]])

\* The page numbers of a generated policy file: ascending from 1, descending,
\* or the same number on every page.
FilterNumberings(n) == {[k \in 1..n |-> k], [k \in 1..n |-> n + 1 - k], [k \in 1..n |-> 1]}

\* Pages 1..30 with a keyword on page 17 only.
ExampleFilterDocument ==
    FilterDocument([k \in 1..30 |-> k], [k \in 1..30 |-> IF k = 17 THEN <<"mortgagee">> ELSE <<"X">>])

FilterDocuments ==
    {ExampleFilterDocument}
    \cup UNION {{FilterDocument(nums, texts) : nums \in FilterNumberings(n),
                                               texts \in [1..n -> FilterTexts]}
                : n \in 0..MaxFilterPages}

InitFilter == \E text \in FilterDocuments : Start(text)

NextFilter == ExtractFromPolicyCombo \/ DollarTaskStep \/ KeywordTaskStep \/ BuildFilteredText

SpecFilter == InitFilter /\ [][NextFilter]_vars

---------------------------------------------------------------------------
\* Claims about the page selection (checked under SpecFilter).

\* The page numbers of the pages of ps whose text passes the test.
DollarHits(ps) == {ps[k].page_number : k \in {j \in 1..Len(ps) : has_dollars(ps[j].text)}}
KeywordHits(ps) ==
    {ps[k].page_number : k \in {j \in 1..Len(ps) : has_keywords(ps[j].text, KEYWORDS)}}

\* C11: the two filters run as two tasks over the same page list.  However
\* their iterations interleave, the page list stays the one the split
\* produced, each task's result so far is a function of the pages it has
\* visited only, and the combined list is the ascending union of the page
\* numbers the dollar filter and the keyword filter select.
C11_CombinedIsSortedUnion ==
    /\ [][filter_pc = "filtering" => combo_pages' = combo_pages]_vars
    /\ [](/\ Range(dollar_out) = DollarHits(SubSeq(combo_pages, 1, dollar_i))
          /\ Range(keyword_out) = KeywordHits(SubSeq(combo_pages, 1, keyword_i))
          /\ filter_pc = "done" =>
                combined = Ascending(DollarHits(combo_pages) \cup KeywordHits(combo_pages)))

\* Both tasks have finished on a file with a page only the dollar filter
\* selects and a page only the keyword filter selects.
C11_Witness ==
    /\ filter_pc = "done"
    /\ Range(dollar_out) \ Range(keyword_out) # {}
    /\ Range(keyword_out) \ Range(dollar_out) # {}
    /\ Len(combined) = 2

\* The page numbers of the pages kept, in the order of the filtered text.
KeptNumbers == [k \in 1..Len(kept) |-> kept[k].page_number]

\* The numbers of the expanded hit set that are pages of the document, ascending.
SelectedNumbers == Ascending(Range(expanded) \cap DocumentPages)

\* C12: the filtered text is built from exactly the pages of the document
\* whose number is in the expanded hit set, ascending, each selected page
\* number once, and with a max_pages cap and more pages selected only the
\* first max_pages of them; for pages 1..30 with the only hit on page 17 and
\* radius 1 the pages kept are 16, 17 and 18.
C12_SelectedPagesOnceEach ==
    filter_pc = "done" =>
        /\ \A k \in 1..Len(kept) : kept[k] \in Range(combo_pages)
        /\ KeptNumbers = IF max_pages.kind = "int" /\ Len(SelectedNumbers) > max_pages.n
                         THEN SubSeq(SelectedNumbers, 1, max_pages.n)
                         ELSE SelectedNumbers
        /\ (policy_text = ExampleFilterDocument /\ radius = 1 /\ max_pages = NoneValue) =>
              KeptNumbers = <<16, 17, 18>>

---------------------------------------------------------------------------
\* llm4nano.py: _normalize_money and _compare_values.  A value of decoded JSON
\* is a record with its kind; a float is given in tenths.

\* Length of a generated string.
MaxChars == 3

StrValue(s) == [kind |-> "str", s |-> s]
FloatValue(tenths) == [kind |-> "float", tenths |-> tenths]
BoolValue(b) == [kind |-> "bool", b |-> b]
ListValue(items) == [kind |-> "list", items |-> items]
NaN == [kind |-> "nan"]
Infinity == [kind |-> "inf"]
Raised(error) == [kind |-> "raised", error |-> error]

\* str(n) of an integer.
str_of_int(n) == IF n < 0 THEN <<"-">> \o Digits(0 - n) ELSE Digits(n)

\* int(x) of a float given in tenths: towards zero.
int_of_float(tenths) == IF tenths < 0 THEN 0 - ((0 - tenths) \div 10) ELSE tenths \div 10

\* Line 72 without the rule for percentages.
kept_as_is_inside_outside_only(v) ==
    contains(lower(v), <<"inside">>) \/ contains(lower(v), <<"outside">>)

\* Lines 64-68: v.endswith("%"), or "inside" or "outside" in v.lower().
kept_as_is(v) ==
    \/ (v # <<>> /\ v[Len(v)] = "%")
    \/ contains(lower(v), <<"inside">>)
    \/ contains(lower(v), <<"outside">>)

\* Line 70: "".join(ch for ch in v if ch.isdigit())
digits_of(v) == SelectSeq(v, LAMBDA ch : ch \in Digit)

\* Lines 58-71: _normalize_money of a string.
normalize_str(s) ==
    LET v == strip(s, Ws)
    IN  IF v = <<>> THEN NoneValue
        ELSE IF lower(v) = <<"included">> THEN StrValue(<<"Included">>)
        ELSE IF kept_as_is(v) THEN StrValue(v)
        ELSE IF digits_of(v) = <<>> THEN NoneValue
        ELSE StrValue(digits_of(v))

\* _normalize_money(value): the value returned, or the exception raised.
_normalize_money(v) ==
    IF v.kind = "null" THEN NoneValue
    ELSE IF v.kind = "int" THEN StrValue(str_of_int(v.n))
    ELSE IF v.kind = "bool" THEN StrValue(str_of_int(IF v.b THEN 1 ELSE 0))
    ELSE IF v.kind = "float" THEN StrValue(str_of_int(int_of_float(v.tenths)))
    ELSE IF v.kind = "nan" THEN Raised("ValueError")
    ELSE IF v.kind = "inf" THEN Raised("OverflowError")
    ELSE IF v.kind # "str" THEN NoneValue
    ELSE normalize_str(v.s)

\* a == b on the two values as they are.
_compare_values_as_given(x, y) == BoolValue(x = y)

\* _compare_values(a, b)
_compare_values(x, y) ==
    IF _normalize_money(x).kind = "raised" THEN _normalize_money(x)
    ELSE IF _normalize_money(y).kind = "raised" THEN _normalize_money(y)
    ELSE BoolValue(_normalize_money(x) = _normalize_money(y))

NormalizeMoney ==
    /\ normalized = NotCalled
    /\ normalized' = _normalize_money(value)
    /\ UNCHANGED <<restVars, policy_text, extractorVars, called, splitVars, combineVars, rangeVars,
                   expandVars, pages_with_dollars, filterVars, value, compare_a, compare_b,
                   equal, qcVars>>

CompareValues ==
    /\ equal = NotCalled
    /\ equal' = _compare_values(compare_a, compare_b)
    /\ UNCHANGED <<restVars, policy_text, extractorVars, called, splitVars, combineVars, rangeVars,
                   expandVars, pages_with_dollars, filterVars, value, normalized, compare_a,
                   compare_b, qcVars>>

\* The characters of a generated string.
Chars ==
    {"SP", "$", ",", ".", "%", "-", "0", "1", "2", "X", "included", "INCLUDED", "inside",
     "Outside"}

Strings(n) == UNION {[1..k -> Chars] : k \in 0..n}

\* The amounts of the renderings.
Amounts == {0, 7, 999, 1000, 1001, 1320000}

\* The digits of n with a separator before every group of three.
RECURSIVE grouped(_, _)
grouped(n, sep) ==
    IF n < 1000 THEN Digits(n)
    ELSE grouped(n \div 1000, sep) \o sep
         \o <<DigitChars[((n \div 100) % 10) + 1], DigitChars[((n \div 10) % 10) + 1],
              DigitChars[(n % 10) + 1]>>

\* n as a number, as its decimal string, and with '$', thousands commas and spaces.
Renderings(n) ==
    {IntValue(n), FloatValue(10 * n), StrValue(Digits(n)), StrValue(<<"$">> \o Digits(n)),
     StrValue(grouped(n, <<",">>)), StrValue(<<"$">> \o grouped(n, <<",">>)),
     StrValue(<<"$", "SP">> \o grouped(n, <<",">>) \o <<"SP">>),
     StrValue(grouped(n, <<"SP">>)), StrValue(<<"SP">> \o Digits(n))}

\* Values of decoded JSON.
Values ==
    {NoneValue, NaN, Infinity, BoolValue(TRUE), BoolValue(FALSE), ListValue(<<>>),
     ListValue(<<IntValue(1)>>), EmptyDict, [kind |-> "dict", entries |-> [k \in {"a"} |-> IntValue(1)]],
     StrValue(<<"1", ",", "2", "3", "4", ".", "5", "6">>),
     StrValue(<<"SP", "Inside", "SP", "$", "1", "0", "SP", "Outside", "SP", "$", "1", "0", "NL">>)}
    \cup {IntValue(n) : n \in {-5, -1, 0, 1, 7, 1320000}}
    \cup {FloatValue(t) : t \in {-25, -5, 0, 5, 15, 19, 10000009}}
    \cup {StrValue(s) : s \in Strings(MaxChars)}

InitNormalize ==
    \/ \E text \in {<<>>}, v \in Values :
          StartPages(text, <<>>, <<>>) /\ StartValues(v, NoneValue, NoneValue)
                                       /\ StartRecords(EmptyDict, EmptyDict)
    \/ \E text \in {<<>>}, m, n \in Amounts : \E x \in Renderings(m), y \in Renderings(n) :
          StartPages(text, <<>>, <<>>) /\ StartValues(x, x, y)
                                       /\ StartRecords(EmptyDict, EmptyDict)

NextNormalize == NormalizeMoney \/ CompareValues

SpecNormalize == InitNormalize /\ [][NextNormalize]_vars

---------------------------------------------------------------------------
\* Claims about _normalize_money and _compare_values (checked under SpecNormalize).

\* C13: for every non-negative integer n, _normalize_money gives the decimal
\* digits of n for n as a number, for its decimal string and for n written
\* with '$', thousands commas or spaces, and _compare_values finds two such
\* renderings equal exactly when they are renderings of the same amount.
C13_RenderingsOfAnAmount ==
    /\ normalized # NotCalled =>
          \A n \in Amounts : value \in Renderings(n) => normalized = StrValue(Digits(n))
    /\ equal # NotCalled =>
          \A m, n \in Amounts :
              (compare_a \in Renderings(m) /\ compare_b \in Renderings(n)) =>
                  equal = BoolValue(m = n)

\* '$1,320,000' and '1 320 000' were compared and found equal.
C13_Witness ==
    /\ compare_a = StrValue(<<"$", "1", ",", "3", "2", "0", ",", "0", "0", "0">>)
    /\ compare_b = StrValue(<<"1", "SP", "3", "2", "0", "SP", "0", "0", "0">>)
    /\ equal = BoolValue(TRUE)

\* A string made only of digit characters.
IsDigitString(r) == r.kind = "str" /\ r.s # <<>> /\ \A k \in 1..Len(r.s) : r.s[k] \in Digit

InsideOutsideAnyCase == {"inside", "INSIDE", "Inside", "outside", "OUTSIDE", "Outside"}

\* C14: the value _normalize_money returns is null, 'Included', a string
\* ending in '%', a string containing 'inside' or 'outside', or a string of
\* digits only; for an integer or a float it is the digits of the integer
\* part, the fraction cut off.
C14_ResultShapes ==
    normalized # NotCalled =>
        /\ \/ normalized = NoneValue
           \/ normalized = StrValue(<<"Included">>)
           \/ normalized.kind = "str" /\ normalized.s # <<>>
                                      /\ normalized.s[Len(normalized.s)] = "%"
           \/ normalized.kind = "str" /\ \E k \in 1..Len(normalized.s) :
                                             normalized.s[k] \in InsideOutsideAnyCase
           \/ IsDigitString(normalized)
        /\ value.kind \in {"int", "float", "nan", "inf"} => IsDigitString(normalized)
        /\ value.kind = "int" /\ value.n >= 0 => normalized = StrValue(Digits(value.n))
        /\ value.kind = "float" /\ value.tenths >= 0 =>
              \E n \in 0..value.tenths :
                  /\ 10 * n <= value.tenths
                  /\ value.tenths < 10 * (n + 1)
                  /\ normalized = StrValue(Digits(n))

\* C15: a value that is neither null, a number nor a string (a boolean, a
\* list, a mapping) normalizes to null.
C15_OtherTypesGiveNull ==
    (normalized # NotCalled /\ value.kind \in {"bool", "list", "dict"}) => normalized = NoneValue

\* The string without the white space at its two ends.
Trimmed(s) ==
    LET inner == {k \in 1..Len(s) : s[k] \notin Ws}
    IN  IF inner = {} THEN <<>> ELSE SubSeq(s, Min(inner), Max(inner))

\* The digit characters of s in their order.
RECURSIVE DigitsInOrder(_)
DigitsInOrder(s) ==
    IF s = <<>> THEN <<>>
    ELSE IF Head(s) \in Digit THEN <<Head(s)>> \o DigitsInOrder(Tail(s))
    ELSE DigitsInOrder(Tail(s))

---------------------------------------------------------------------------
\* llm4nano.py: _qc_compare.  A mapping is a record of kind "dict" whose
\* entries are a function of its keys, a list one of kind "list".

DictValue(entries) == [kind |-> "dict", entries |-> entries]

Check(field, cert_path, pol_path) ==
    [field |-> field, cert_path |-> cert_path, pol_path |-> pol_path]

\* Lines 94-155: checks.
checks_table ==
    <<
     Check("property.policy_number",
           <<"property", "policy_number">>,
           <<"property", "policy_number">>),
     Check("property.effective_date",
           <<"property", "effective_date">>,
           <<"property", "policy_period", "effective_date">>),
     Check("property.expiration_date",
           <<"property", "expiration_date">>,
           <<"property", "policy_period", "expiration_date">>),
     Check("gl.policy_number",
           <<"general_liability", "policy_number">>,
           <<"general_liability", "policy_number">>),
     Check("gl.effective_date",
           <<"general_liability", "effective_date">>,
           <<"general_liability", "policy_period", "effective_date">>),
     Check("gl.expiration_date",
           <<"general_liability", "expiration_date">>,
           <<"general_liability", "policy_period", "expiration_date">>),
     Check("gl.limits.each_occurrence",
           <<"general_liability", "limits", "each_occurrence">>,
           <<"general_liability", "limits", "each_occurrence">>),
     Check("gl.limits.general_aggregate",
           <<"general_liability", "limits", "general_aggregate">>,
           <<"general_liability", "limits", "general_aggregate">>),
     Check("gl.limits.products_completed_operations_aggregate",
           <<"general_liability", "limits", "products_completed_operations_aggregate">>,
           <<"general_liability", "limits", "products_completed_operations_aggregate">>),
     Check("gl.limits.personal_advertising_injury",
           <<"general_liability", "limits", "personal_advertising_injury">>,
           <<"general_liability", "limits", "personal_advertising_injury">>),
     Check("gl.limits.damage_to_rented_premises",
           <<"general_liability", "limits", "damage_to_rented_premises">>,
           <<"general_liability", "limits", "damage_to_rented_premises">>),
     Check("gl.limits.medical_expense",
           <<"general_liability", "limits", "medical_expense">>,
           <<"general_liability", "limits", "medical_expense">>),
     Check("property.locations[0].business_personal_property",
           <<"property", "locations", "0", "business_personal_property">>,
           <<"property", "locations", "0", "business_personal_property">>),
     Check("property.locations[0].building",
           <<"property", "locations", "0", "building">>,
           <<"property", "locations", "0", "building">>),
     Check("property.locations[0].business_income",
           <<"property", "locations", "0", "business_income">>,
           <<"property", "locations", "0", "business_income">>),
     Check("property.locations[0].deductible",
           <<"property", "locations", "0", "deductible">>,
           <<"property", "locations", "0", "deductible">>),
     Check("policy.property.outdoor_signs_limit",
           <<"property", "locations", "0", "outdoor_signs">>,
           <<"property", "outdoor_signs_limit">>),
     Check("policy.property.windstorm_or_hail",
           <<"property", "locations", "0", "windstorm_or_hail">>,
           <<"property", "windstorm_or_hail">>),
     Check("policy.property.theft_sublimit",
           <<"property", "locations", "0", "theft_sublimit">>,
           <<"property", "theft_sublimit">>)
    >>

\* d.get(k) of a mapping.
dict_get(dv, k) == IF k \in DOMAIN dv.entries THEN dv.entries[k] ELSE NoneValue

\* Line 158: cert_prop.
cert_prop_of(cert) ==
    IF cert.kind = "dict"
    THEN IF "property" \in DOMAIN cert.entries THEN cert.entries["property"] ELSE EmptyDict
    ELSE EmptyDict

\* Line 159: cert_locations, or the exception cert_prop.get raises.
cert_locations_of(cert) ==
    IF cert_prop_of(cert).kind = "dict" THEN dict_get(cert_prop_of(cert), "locations")
    ELSE Raised("AttributeError")

\* Lines 160-162: the checks of the loop.
checks_of(table, cert_locations) ==
    IF cert_locations.kind # "list" \/ Len(cert_locations.items) = 0
    THEN SelectSeq(table, LAMBDA c : "locations" \notin Range(c.cert_path))
    ELSE table

\* Lines 168-178 without the tests of the type and of the index.
resolve_segment_unchecked(cur, k) ==
    IF k \in Digit
    THEN IF cur.kind # "list" THEN Raised("TypeError")
         ELSE IF DigitVal(k) >= Len(cur.items) THEN Raised("IndexError")
         ELSE cur.items[DigitVal(k) + 1]
    ELSE IF cur.kind # "dict" THEN Raised("AttributeError")
         ELSE dict_get(cur, k)

\* Lines 168-178: one segment of the path applied to cur.
resolve_segment(cur, k) ==
    IF k \in Digit
    THEN IF cur.kind # "list" THEN NoneValue
         ELSE IF DigitVal(k) >= Len(cur.items) THEN NoneValue
         ELSE cur.items[DigitVal(k) + 1]
    ELSE IF cur.kind # "dict" THEN NoneValue
         ELSE dict_get(cur, k)

\* Lines 166-179: resolve_path(root, path).  A segment that gives None in the
\* middle of the path gives None at every later segment; an exception ends
\* the walk.
RECURSIVE resolve_path(_, _)
resolve_path(cur, path) ==
    IF path = <<>> \/ cur.kind = "raised" THEN cur
    ELSE resolve_path(resolve_segment(cur, Head(path)), Tail(path))

\* Lines 181-182: cert_val and pol_val of a check.
resolve_check(c, cert, pol) ==
    [field |-> c.field,
     cert_val |-> resolve_path(cert, c.cert_path),
     pol_val |-> resolve_path(pol, c.pol_path)]

\* The record of lines 194-198 and 202-206, or the exception raised on the way.
mismatch_record(field, cert_norm, pol_norm) ==
    IF cert_norm.kind = "raised" THEN cert_norm
    ELSE IF pol_norm.kind = "raised" THEN pol_norm
    ELSE [kind |-> "mismatch",
          record |-> [field |-> field, certificate |-> cert_norm, policy |-> pol_norm]]

\* Lines 186-206 that always append when the two values are there.
classify_always_record(r) ==
    IF r.cert_val.kind = "raised" THEN r.cert_val
    ELSE IF r.pol_val.kind = "raised" THEN r.pol_val
    ELSE IF r.cert_val = NoneValue /\ r.pol_val = NoneValue THEN [kind |-> "skip"]
    ELSE IF r.cert_val = NoneValue \/ r.pol_val = NoneValue
    THEN mismatch_record(r.field,
                         IF r.cert_val # NoneValue THEN _normalize_money(r.cert_val) ELSE NoneValue,
                         IF r.pol_val # NoneValue THEN _normalize_money(r.pol_val) ELSE NoneValue)
    ELSE mismatch_record(r.field, _normalize_money(r.cert_val), _normalize_money(r.pol_val))

\* Lines 186-206: what the loop does with the two values of a check.
classify(r) ==
    IF r.cert_val.kind = "raised" THEN r.cert_val
    ELSE IF r.pol_val.kind = "raised" THEN r.pol_val
    ELSE IF r.cert_val = NoneValue /\ r.pol_val = NoneValue THEN [kind |-> "skip"]
    ELSE IF r.cert_val = NoneValue \/ r.pol_val = NoneValue
    THEN mismatch_record(r.field,
                         IF r.cert_val # NoneValue THEN _normalize_money(r.cert_val) ELSE NoneValue,
                         IF r.pol_val # NoneValue THEN _normalize_money(r.pol_val) ELSE NoneValue)
    ELSE IF _compare_values(r.cert_val, r.pol_val).kind = "raised"
    THEN _compare_values(r.cert_val, r.pol_val)
    ELSE IF _compare_values(r.cert_val, r.pol_val).b THEN [kind |-> "match"]
    ELSE mismatch_record(r.field, _normalize_money(r.cert_val), _normalize_money(r.pol_val))

\* The number of checks the loop gets through: all, or up to the first that raises.
checks_done(outcomes) ==
    LET raising == {k \in 1..Len(outcomes) : outcomes[k].kind = "raised"}
    IN  IF raising = {} THEN Len(outcomes) ELSE Min(raising)

\* Only the records with a value on both sides.
mismatches_of_two_sided(outcomes, n) ==
    LET appended == SelectSeq(SubSeq(outcomes, 1, n),
                              LAMBDA o : o.kind = "mismatch" /\ o.record.certificate # NoneValue
                                                             /\ o.record.policy # NoneValue)
    IN  [k \in 1..Len(appended) |-> appended[k].record]

\* mismatches after the first n checks.
mismatches_of(outcomes, n) ==
    LET appended == SelectSeq(SubSeq(outcomes, 1, n), LAMBDA o : o.kind = "mismatch")
    IN  [k \in 1..Len(appended) |-> appended[k].record]

\* Lines 208-209, or the exception that ended the loop.
outcome_of(outcomes, n) ==
    IF n > 0 /\ outcomes[n].kind = "raised" THEN outcomes[n]
    ELSE [kind |-> "returned",
          status |-> IF mismatches_of(outcomes, n) = <<>> THEN "pass" ELSE "needs_review"]

\* _qc_compare(certificate, policy)
QcCompareOf(cert, pol) ==
    IF cert_locations_of(cert).kind = "raised"
    THEN /\ checks' = checks_table
         /\ resolved' = <<>>
         /\ mismatches' = <<>>
         /\ qc_outcome' = cert_locations_of(cert)
    ELSE /\ checks' = checks_of(checks_table, cert_locations_of(cert))
         /\ \E all \in {[k \in 1..Len(checks') |-> resolve_check(checks'[k], cert, pol)]} :
            \E outcomes \in {[k \in 1..Len(all) |-> classify(all[k])]} :
            \E n \in {checks_done(outcomes)} :
                /\ resolved' = SubSeq(all, 1, n)
                /\ mismatches' = mismatches_of(outcomes, n)
                /\ qc_outcome' = outcome_of(outcomes, n)

\* A call of _qc_compare(certificate, policy) on its own.
QcCompare ==
    /\ qc_outcome = NotCalled
    /\ QcCompareOf(certificate, policy)
    /\ UNCHANGED <<restVars, policy_text, extractorVars, called, splitVars, combineVars, rangeVars,
                   expandVars, pages_with_dollars, filterVars, normalizeVars, certificate,
                   policy>>

\* The mappings with the key k and a value of vals, and the one without the key.
Optional(k, vals) == {<<>>} \cup {(k :> v) : v \in vals}

\* The mappings made of one mapping of each of the three sets.
Merged(A, B, C) == {x @@ y @@ z : x \in A, y \in B, z \in C}

OneMillionWithCommas == StrValue(<<"1", ",", "0", "0", "0", ",", "0", "0", "0">>)
TwoPercent == StrValue(<<"2", "%">>)

\* The first location of a certificate.
CertificateLocations ==
    {DictValue(e) : e \in Merged(Optional("building", {OneMillionWithCommas, IntValue(1000000),
                                                        TwoPercent}),
                                 Optional("outdoor_signs", {OneMillionWithCommas}), {<<>>})}

\* property of a certificate.
CertificateProperties ==
    {NoneValue, ListValue(<<>>)}
    \cup {DictValue(e) :
            e \in Merged(Optional("policy_number", {NoneValue, OneMillionWithCommas,
                                                         StrValue(<<"X">>)}),
                         Optional("locations",
                                  {NoneValue, StrValue(<<"X">>), ListValue(<<>>),
                                   ListValue(<<NoneValue>>)}
                                  \cup {ListValue(<<l>>) : l \in CertificateLocations}),
                         {<<>>})}

\* general_liability of a certificate.
CertificateLiabilities ==
    {DictValue("limits" :> NoneValue),
     DictValue("limits" :> DictValue("each_occurrence" :> OneMillionWithCommas)),
     DictValue("limits" :> DictValue("each_occurrence" :> NaN))}

\* extracted.get("certificate", {})
Certificates ==
    {NoneValue, ListValue(<<>>)}
    \cup {DictValue(e) : e \in Merged(Optional("property", CertificateProperties),
                                      Optional("general_liability", CertificateLiabilities),
                                      {<<>>})}

\* property of a policy.
PolicyProperties ==
    {NoneValue}
    \cup {DictValue(e) :
            e \in Merged(Optional("policy_number", {OneMillionWithCommas, TwoPercent}),
                         Optional("outdoor_signs_limit", {IntValue(1000000), TwoPercent}),
                         Optional("locations",
                                  {StrValue(<<"X">>), ListValue(<<>>), ListValue(<<EmptyDict>>),
                                   ListValue(<<DictValue("building" :> OneMillionWithCommas)>>),
                                   ListValue(<<DictValue("building" :> TwoPercent)>>)}))}

\* general_liability of a policy.
PolicyLiabilities ==
    {DictValue("limits" :> DictValue("each_occurrence" :> IntValue(1000000))),
     DictValue("limits" :> DictValue("each_occurrence" :> TwoPercent))}

\* extracted.get("policy", {})
Policies ==
    {NoneValue}
    \cup {DictValue(e) : e \in Merged(Optional("property", PolicyProperties),
                                      Optional("general_liability", PolicyLiabilities),
                                      {<<>>})}

InitQc ==
    \E text \in {<<>>}, cert \in Certificates, pol \in Policies :
        /\ StartPages(text, <<>>, <<>>)
        /\ StartValues(NoneValue, NoneValue, NoneValue)
        /\ StartRecords(cert, pol)

NextQc == QcCompare

SpecQc == InitQc /\ [][NextQc]_vars

---------------------------------------------------------------------------
\* Claims about _qc_compare (checked under SpecQc).

\* The records of mismatches for a field.
RecordsOf(field) == {m \in Range(mismatches) : m.field = field}

\* The record with the normalized values of the two sides, null for a null side.
NormalizedRecord(field, cert_val, pol_val) ==
    [field |-> field,
     certificate |-> IF cert_val = NoneValue THEN NoneValue ELSE _normalize_money(cert_val),
     policy |-> IF pol_val = NoneValue THEN NoneValue ELSE _normalize_money(pol_val)]

ExactlyOneNull(cert_val, pol_val) == (cert_val = NoneValue) # (pol_val = NoneValue)

\* Whether the certificate has a first location: property.locations is a
\* list that is not empty.
HasLocations ==
    /\ resolve_path(certificate, <<"property", "locations">>).kind = "list"
    /\ Len(resolve_path(certificate, <<"property", "locations">>).items) > 0

RECURSIVE ValueAt(_, _)
ValueAt(root, path) ==
    IF path = <<>> THEN root
    ELSE IF Head(path) \in Digit
    THEN IF root.kind = "list" /\ DigitVal(Head(path)) < Len(root.items)
         THEN ValueAt(root.items[DigitVal(Head(path)) + 1], Tail(path))
         ELSE NoneValue
    ELSE IF root.kind = "dict" /\ Head(path) \in DOMAIN root.entries
         THEN ValueAt(root.entries[Head(path)], Tail(path))
         ELSE NoneValue

\* C19: resolve_path never raises: for every check of the loop the two values
\* resolved are the values at the two paths, null when a key segment meets a
\* non-mapping or a missing key and when a digit segment meets a non-list or
\* an index out of range.
C19_ResolveNeverRaises ==
    \A k \in 1..Len(resolved) :
        /\ resolved[k].cert_val = ValueAt(certificate, checks[k].cert_path)
        /\ resolved[k].pol_val = ValueAt(policy, checks[k].pol_path)
        /\ resolved[k].cert_val.kind # "raised"
        /\ resolved[k].pol_val.kind # "raised"

\* All checks were resolved on a certificate with a value at a location
\* path, and a policy whose locations are not a list and whose
\* general_liability is missing.
C19_Witness ==
    /\ Len(resolved) = Len(checks_table)
    /\ HasLocations
    /\ \E k \in 1..Len(resolved) :
          "locations" \in Range(checks[k].cert_path) /\ resolved[k].cert_val # NoneValue
    /\ policy.kind = "dict"
    /\ "general_liability" \notin DOMAIN policy.entries
    /\ resolve_path(policy, <<"property", "locations">>).kind = "str"

\* C20: when property.locations of the certificate is absent, not a list or
\* an empty list, the checks whose certificate path goes through 'locations'
\* are removed before any value is resolved and no record is emitted for
\* them; when it is a list that is not empty the whole table is evaluated.
C20_LocationChecksRemoved ==
    qc_outcome # NotCalled =>
        IF HasLocations THEN checks = checks_table
        ELSE /\ qc_outcome # Raised("AttributeError")
             /\ checks = SelectSeq(checks_table, LAMBDA c : "locations" \notin Range(c.cert_path))
             /\ \A k \in 1..Len(checks_table) :
                   "locations" \in Range(checks_table[k].cert_path) =>
                       RecordsOf(checks_table[k].field) = {}

\* C29: every record of mismatches has a value that is not null on at least
\* one of its two sides, and when both sides are not null the two values differ.
C29_RecordsCarryADifference ==
    \A k \in 1..Len(mismatches) :
        /\ mismatches[k].certificate # NoneValue \/ mismatches[k].policy # NoneValue
        /\ (mismatches[k].certificate # NoneValue /\ mismatches[k].policy # NoneValue) =>
              mismatches[k].certificate # mismatches[k].policy

\* C30: _qc_compare returns a status and a list of mismatches for every
\* certificate and policy of the shape of decoded JSON, whatever is found in
\* the place of a mapping or a list, and never raises.
C30_QcCompareAlwaysReturns ==
    qc_outcome # NotCalled =>
        /\ qc_outcome.kind = "returned"
        /\ qc_outcome.status \in {"pass", "needs_review"}

---------------------------------------------------------------------------
\* llm4nano.py EncovaExtractor.extract and extract_property_llm.py
\* PropertyExtractor.extract_property_info: the call of the model and the
\* decoding of its response.  A response is a sequence of the tokens "{}" (a
\* JSON document), "FENCE json" and "FENCE" (a code fence of three backquotes
\* with and without json after it), "x" (another character) and "NL".

\* Length of a generated response.
MaxResponse == 3

\* The earlier tools, not started.
StartEarlier ==
    /\ StartPages(<<>>, <<>>, <<>>)
    /\ StartValues(NoneValue, NoneValue, NoneValue)
    /\ StartQc(EmptyDict, EmptyDict)

JSONDecodeError == Raised("JSONDecodeError")

\* json.loads(t): the document decoded, white space around it allowed.
json_loads(t) == IF strip(t, Ws) = <<"{}">> THEN EmptyDict ELSE JSONDecodeError

\* t.find(sub) from offset o on, for the fence with json (fences =
\* {"FENCE json"}) and for the fence alone, which the fence with json starts
\* with (fences = {"FENCE json", "FENCE"}).
find(t, fences, o) ==
    IF \E k \in o..(Len(t) - 1) : Tok(t, k) \in fences
    THEN Min({k \in o..(Len(t) - 1) : Tok(t, k) \in fences})
    ELSE -1

\* t[start:end] for end >= 0, and for end = -1, which leaves out the last
\* character: of "{}" the character "{" remains.
text_slice(t, start, end) ==
    IF end >= 0 THEN Slice(t, start, end)
    ELSE IF start >= Len(t) THEN <<>>
    ELSE IF t[Len(t)] = "{}" THEN Append(Slice(t, start, Len(t) - 1), "{")
    ELSE Slice(t, start, Len(t) - 1)

\* Lines 400-407 without the fallback: the text as it is.
fenced_text_as_it_is(t) == t

\* Lines 400-407: the text between the code fences, stripped.
fenced_text(t) ==
    IF find(t, {"FENCE json"}, 0) >= 0
    THEN strip(text_slice(t, find(t, {"FENCE json"}, 0) + 1,
                          find(t, {"FENCE json", "FENCE"}, find(t, {"FENCE json"}, 0) + 1)), Ws)
    ELSE IF find(t, {"FENCE json", "FENCE"}, 0) >= 0
    THEN strip(text_slice(t, find(t, {"FENCE json", "FENCE"}, 0) + 1,
                          find(t, {"FENCE json", "FENCE"}, find(t, {"FENCE json", "FENCE"}, 0) + 1)), Ws)
    ELSE t

\* Line 417: the error value of a response that is not JSON.
parse_error(t) ==
    DictValue(("error" :> StrValue(<<"Failed to parse JSON response">>))
              @@ ("raw_response" :> StrValue(t)))

\* Lines 419-422: the error value of a failed call.
api_error(message) == DictValue("error" :> StrValue(<<message>>))

\* Lines 368-388: the call; a failed call and a response without content end
\* in the handler of line 419.
CallModel ==
    /\ extract_pc = "start"
    /\ api_response # NotCalled
    /\ IF api_response.kind = "raised"
       THEN /\ extract_result' = api_error(api_response.error)
            /\ extract_pc' = "returned"
            /\ UNCHANGED response_text
       ELSE IF api_response.kind = "null"
       THEN /\ extract_result' = api_error("AttributeError")
            /\ extract_pc' = "returned"
            /\ UNCHANGED response_text
       ELSE /\ response_text' = strip(api_response.s, Ws)
            /\ extract_pc' = "parse"
            /\ UNCHANGED extract_result
    /\ UNCHANGED <<earlierVars, mainVars, validateVars, ocrVars, headingVars, api_response, parse_attempts>>

\* Lines 391-395: the strict parse.
ParseResponse ==
    /\ extract_pc = "parse"
    /\ parse_attempts' = parse_attempts + 1
    /\ IF json_loads(response_text) # JSONDecodeError
       THEN extract_result' = json_loads(response_text) /\ extract_pc' = "returned"
       ELSE extract_pc' = "fallback" /\ UNCHANGED extract_result
    /\ UNCHANGED <<earlierVars, mainVars, validateVars, ocrVars, headingVars, api_response, response_text>>

\* Lines 396-417: the fallback.
ParseFencedResponse ==
    /\ extract_pc = "fallback"
    /\ response_text' = fenced_text(response_text)
    /\ parse_attempts' = parse_attempts + 1
    /\ extract_result' = IF json_loads(response_text') # JSONDecodeError
                         THEN json_loads(response_text')
                         ELSE parse_error(response_text')
    /\ extract_pc' = "returned"
    /\ UNCHANGED <<earlierVars, mainVars, validateVars, ocrVars, headingVars, api_response>>

ResponseTokens == {"{}", "FENCE json", "FENCE", "x", "NL"}

\* What the call of the model gives: an exception, a message without
\* content, or a text.
Responses ==
    {Raised("APIError"), NoneValue}
    \cup {StrValue(t) : t \in UNION {[1..k -> ResponseTokens] : k \in 0..MaxResponse}}

InitExtract ==
    \E response \in Responses :
        /\ StartEarlier
        /\ StartResponse(response)
        /\ StartMain(FALSE, NotCalled, <<NoneValue, NoneValue>>, FALSE)
        /\ NoValidate
        /\ NoOthers

NextExtract == CallModel \/ ParseResponse \/ ParseFencedResponse

SpecExtract == InitExtract /\ [][NextExtract]_vars

---------------------------------------------------------------------------
\* Claims about the decoding of the response (checked under SpecExtract).

\* The text is a JSON document between two code fences.
IsFencedDocument(t) ==
    /\ Len(t) >= 3
    /\ t[1] \in {"FENCE json", "FENCE"}
    /\ t[Len(t)] = "FENCE"
    /\ \E k \in 2..(Len(t) - 1) :
          t[k] = "{}" /\ \A j \in 2..(Len(t) - 1) : j # k => t[j] = "NL"

\* C23: the response is decoded in at most two stages, a strict parse and at
\* most one fallback that takes the text out of its code fence and parses
\* again; when both fail the extractor returns a mapping with the keys
\* 'error' and 'raw_response', a failed call returns a mapping with 'error',
\* and the extractor never raises.
C23_BoundedDecoding ==
    /\ parse_attempts <= 2
    /\ extract_pc = "fallback" => parse_attempts = 1
    /\ extract_pc = "returned" =>
          /\ extract_result.kind = "dict"
          /\ api_response.kind \in {"raised", "null"} =>
                parse_attempts = 0 /\ DOMAIN extract_result.entries = {"error"}
          /\ api_response.kind = "str" =>
                \/ extract_result = EmptyDict
                \/ /\ parse_attempts = 2
                   /\ DOMAIN extract_result.entries = {"error", "raw_response"}
          /\ (api_response.kind = "str" /\ IsFencedDocument(strip(api_response.s, Ws))) =>
                parse_attempts = 2 /\ extract_result = EmptyDict

\* A response with a code fence that is not JSON inside the fence either:
\* both stages failed and the error value was returned.
C23_Witness ==
    /\ extract_pc = "returned"
    /\ api_response.kind = "str"
    /\ "FENCE json" \in Range(api_response.s)
    /\ parse_attempts = 2
    /\ DOMAIN extract_result.entries = {"error", "raw_response"}


---------------------------------------------------------------------------
\* main of hartford_done/llm4nano.py: the post-processing of the extraction, the
\* choice of the QC block and the saving of the results.
\* _extract_first_class_amount and _policy_has_explicit_building_limit search the
\* policy text with regular expressions; what they found is class_amounts and
\* has_building_limit.

\* d[k] = v on a dict.
set_key(dv, k, v) == DictValue((k :> v) @@ dv.entries)

\* bool(x) of None or a string.
truthy(v) == v.kind = "str" /\ v.s # <<>>

\* Lines 279-285: a building that is a construction type is moved to construction.
move_construction(loc) ==
    IF /\ dict_get(loc, "building").kind = "str"
       /\ _normalize_money(dict_get(loc, "building")) = NoneValue
       /\ strip(dict_get(loc, "building").s, Ws) # <<>>
    THEN set_key(IF dict_get(loc, "construction") \in {NoneValue, StrValue(<<>>)}
                 THEN set_key(loc, "construction",
                              StrValue(strip(dict_get(loc, "building").s, Ws)))
                 ELSE loc,
                 "building", NoneValue)
    ELSE loc

\* Lines 288-294: pumps or canopy taken from the class amount of the policy text.
fix_from_class(loc, k, amount) ==
    IF _normalize_money(dict_get(loc, k)) \in {NoneValue, StrValue(<<"Included">>)}
       /\ truthy(amount)
    THEN set_key(loc, k, amount)
    ELSE loc

\* Lines 298-302: a building equal to the business personal property is removed
\* when the policy shows no building limit.
drop_copied_building(loc, building_limit) ==
    IF /\ ~building_limit
       /\ truthy(_normalize_money(dict_get(loc, "business_personal_property")))
       /\ truthy(_normalize_money(dict_get(loc, "building")))
       /\ _normalize_money(dict_get(loc, "business_personal_property"))
            = _normalize_money(dict_get(loc, "building"))
    THEN set_key(loc, "building", NoneValue)
    ELSE loc

\* The first exception _normalize_money raises on the values of a location, in the
\* order of lines 280, 289, 293, 301; null when it raises none.
location_error(loc, building_limit) ==
    LET raising == SelectSeq(<<"building", "pumps", "canopy">>
                             \o (IF building_limit THEN <<>>
                                 ELSE <<"business_personal_property">>),
                             LAMBDA k : _normalize_money(dict_get(loc, k)).kind = "raised")
    IN  IF raising = <<>> THEN NoneValue ELSE _normalize_money(dict_get(loc, raising[1]))

\* Lines 274-302: one round of the loop.
postprocess_location(loc, amounts, building_limit) ==
    IF loc.kind # "dict" THEN loc
    ELSE IF location_error(loc, building_limit) # NoneValue
    THEN location_error(loc, building_limit)
    ELSE drop_copied_building(
             fix_from_class(fix_from_class(move_construction(loc), "pumps", amounts[1]),
                            "canopy", amounts[2]),
             building_limit)

\* Lines 274-302: the loop over locs.
postprocess_locations(locs, amounts, building_limit) ==
    LET done == [k \in 1..Len(locs.items) |->
                    postprocess_location(locs.items[k], amounts, building_limit)]
        raising == SelectSeq(done, LAMBDA l : l.kind = "raised")
    IN  IF raising = <<>> THEN ListValue(done) ELSE raising[1]

\* _postprocess_extraction(extracted, policy_text, certs_provided): the extraction
\* returned, or the exception raised.
_postprocess_extraction(ex, amounts, building_limit) ==
    IF ex.kind # "dict" THEN ex
    ELSE IF dict_get(ex, "policy").kind # "dict" THEN ex
    ELSE IF dict_get(dict_get(ex, "policy"), "property").kind # "dict" THEN ex
    ELSE IF dict_get(dict_get(dict_get(ex, "policy"), "property"), "locations").kind # "list"
    THEN ex
    ELSE LET pol == dict_get(ex, "policy")
             prop == dict_get(pol, "property")
             locs == postprocess_locations(dict_get(prop, "locations"), amounts,
                                           building_limit)
         IN  IF locs.kind = "raised" THEN locs
             ELSE set_key(ex, "policy", set_key(pol, "property", set_key(prop, "locations", locs)))

\* A QC block of the results.
QcBlock(status, records) == [kind |-> "qc", status |-> status, mismatches |-> records]

\* Lines 646-651 with the question of line 646 left out.
qc_source_without_certificate_test(provided, ex) ==
    IF ex.kind = "dict" /\ "certificate" \in DOMAIN ex.entries /\ "policy" \in DOMAIN ex.entries
    THEN "_qc_compare"
    ELSE "unknown"

\* Lines 646-651: where results["qc"] comes from.
qc_source(provided, ex) ==
    IF ~provided THEN "no_certificate"
    ELSE IF ex.kind = "dict" /\ "certificate" \in DOMAIN ex.entries
            /\ "policy" \in DOMAIN ex.entries
    THEN "_qc_compare"
    ELSE "unknown"

\* return of main: the exit code.
Returned(code) == [kind |-> "returned", code |-> code]

\* Lines 629-669 of main, and the except clauses of lines 671-681: nothing is saved
\* when the post-processing or _qc_compare raises.
Main ==
    /\ main_outcome = NotCalled
    /\ extracted # NotCalled
    /\ \E post \in {_postprocess_extraction(extracted, class_amounts, has_building_limit)} :
         IF post.kind = "raised"
         THEN /\ main_outcome' = Returned(1)
              /\ UNCHANGED <<extracted, saved_qc, qcVars>>
         ELSE /\ extracted' = post
              /\ IF qc_source(certs_provided, post) = "_qc_compare"
                 THEN /\ certificate' = dict_get(post, "certificate")
                      /\ policy' = dict_get(post, "policy")
                      /\ QcCompareOf(certificate', policy')
                      /\ IF qc_outcome'.kind = "raised"
                         THEN /\ saved_qc' = saved_qc
                              /\ main_outcome' = Returned(1)
                         ELSE /\ saved_qc' = QcBlock(qc_outcome'.status, mismatches')
                              /\ main_outcome' = Returned(0)
                 ELSE /\ saved_qc' = QcBlock(qc_source(certs_provided, post), <<>>)
                      /\ main_outcome' = Returned(0)
                      /\ UNCHANGED qcVars
    /\ UNCHANGED <<policy_text, extractorVars, called, splitVars, combineVars, rangeVars,
                   expandVars, pages_with_dollars, filterVars, normalizeVars, extractVars,
                   validateVars, ocrVars, headingVars, certs_provided, class_amounts, has_building_limit>>

Included == StrValue(<<"Included">>)

\* A location of the policy as the model may return it.
MainLocations ==
    {DictValue(e) :
        e \in Merged(Merged(Optional("building", {OneMillionWithCommas, StrValue(<<"SP", "X">>),
                                                  NaN}),
                            Optional("construction", {StrValue(<<>>), StrValue(<<"Outside">>)}),
                            Optional("pumps", {Included, TwoPercent})),
                     Optional("canopy", {Included}),
                     Optional("business_personal_property", {IntValue(1000000), Infinity}))}

\* extracted["policy"]
MainPolicies ==
    {NoneValue, EmptyDict, DictValue("property" :> NoneValue),
     DictValue("property" :> DictValue("policy_number" :> OneMillionWithCommas)),
     DictValue("property" :> DictValue("locations" :> StrValue(<<"X">>))),
     DictValue("property" :> DictValue("locations" :> ListValue(<<NoneValue>>)))}
    \cup {DictValue("property" :> DictValue("locations" :> ListValue(<<l>>))) :
            l \in MainLocations}

\* extracted["certificate"]
MainCertificates ==
    {NoneValue, EmptyDict,
     DictValue("property" :> ListValue(<<>>)),
     DictValue("property" :> DictValue("policy_number" :> OneMillionWithCommas)),
     DictValue("property" :> DictValue("locations" :>
        ListValue(<<DictValue("building" :> OneMillionWithCommas)>>)))}

\* The values extract returns: the extraction decoded, or one of its two error values.
Extractions ==
    {ListValue(<<>>), api_error("x"), parse_error(<<"x">>)}
    \cup {DictValue("certificate" :> c) : c \in MainCertificates}
    \cup {DictValue("policy" :> q) : q \in MainPolicies}
    \cup {DictValue(("certificate" :> c) @@ ("policy" :> q)) :
            c \in MainCertificates, q \in MainPolicies}

\* The class amounts found in the policy text.
ClassAmounts == {NoneValue, StrValue(<<"5", "0", "0">>)}

InitMain ==
    \E provided \in BOOLEAN, ex \in Extractions, a1 \in ClassAmounts, a2 \in ClassAmounts,
       building_limit \in BOOLEAN :
        /\ StartEarlier
        /\ StartResponse(NotCalled)
        /\ StartMain(provided, ex, <<a1, a2>>, building_limit)
        /\ NoValidate
        /\ NoOthers

NextMain == Main

SpecMain == InitMain /\ [][NextMain]_vars

---------------------------------------------------------------------------
\* Claims about the QC block main saves (checked under SpecMain).

\* main saved its results.
Saved == saved_qc # NotCalled

\* C21 as stated: in every QC result saved, the status is "pass" exactly when the
\* list of mismatches is empty and "needs_review" otherwise, and there is no other
\* status.
C21_TwoStatuses ==
    Saved =>
        /\ saved_qc.status \in {"pass", "needs_review"}
        /\ saved_qc.status = "pass" <=> saved_qc.mismatches = <<>>

\* C21: in every QC result saved, the status is "no_certificate" with no mismatch
\* when no certificate text was given; otherwise "unknown" with no mismatch when the
\* extraction is not a mapping with the keys certificate and policy; otherwise it is
\* the result of _qc_compare, "pass" exactly when the list of mismatches is empty and
\* "needs_review" when it is not.
C21_StatusOfSavedQc ==
    Saved =>
        /\ main_outcome = Returned(0)
        /\ saved_qc.status \in {"pass", "needs_review", "no_certificate", "unknown"}
        /\ saved_qc.status = "no_certificate" <=> ~certs_provided
        /\ saved_qc.status = "unknown"
             <=> /\ certs_provided
                 /\ ~(/\ extracted.kind = "dict"
                      /\ {"certificate", "policy"} \subseteq DOMAIN extracted.entries)
        /\ saved_qc.status \in {"no_certificate", "unknown"} => saved_qc.mismatches = <<>>
        /\ saved_qc.status = "pass" => saved_qc.mismatches = <<>>
        /\ saved_qc.status = "needs_review"
             => saved_qc.mismatches # <<>> /\ saved_qc.mismatches = mismatches

\* A needs_review block saved after the post-processing moved a building to
\* construction.
C21_Witness ==
    /\ Saved
    /\ saved_qc.status = "needs_review"
    /\ certs_provided
    /\ policy.kind = "dict"
    /\ dict_get(policy, "property").kind = "dict"
    /\ dict_get(dict_get(policy, "property"), "locations").kind = "list"
    /\ \E l \in Range(dict_get(dict_get(policy, "property"), "locations").items) :
          l.kind = "dict" /\ dict_get(l, "construction") = StrValue(<<"X">>)


---------------------------------------------------------------------------
\* The batch validators: GLLimitsValidator.validate_limits (llm_gl_pol_cov.py),
\* AdditionalInterestsCoverageValidator.validate_additional_interests
\* (pl_cov_additional_interests.py) and BuildingCoverageValidator.validate_buildings
\* (llm_pl_pol_cov.py). The collaborator is the model that answers with JSON.

\* not v
falsy(v) ==
    \/ v.kind = "null"
    \/ v.kind = "int" /\ v.n = 0
    \/ v.kind = "float" /\ v.tenths = 0
    \/ v.kind = "bool" /\ ~v.b
    \/ v.kind = "str" /\ v.s = <<>>
    \/ v.kind = "list" /\ v.items = <<>>
    \/ v.kind = "dict" /\ v.entries = <<>>

\* v.get(k), or the exception it raises.
get(v, k) == IF v.kind = "dict" THEN dict_get(v, k) ELSE Raised("AttributeError")

\* (v or {}).get(k), or the exception it raises.
get_or_empty(v, k) == IF falsy(v) THEN NoneValue ELSE get(v, k)

\* The first exception of a sequence of outcomes, null when there is none.
first_raised(outcomes) ==
    LET raising == SelectSeq(outcomes, LAMBDA x : x.kind = "raised")
    IN  IF raising = <<>> THEN NoneValue ELSE raising[1]

\* ch.isalnum()
isalnum(c) ==
    \/ c \in Digit
    \/ letter_index(c, UpperLetters) # 0
    \/ letter_index(c, LowerLetters) # 0

\* Lines 205-209 of llm_gl_pol_cov.py: _norm_name(s), or the exception it raises.
_norm_name(v) ==
    IF v.kind = "raised" THEN v
    ELSE IF falsy(v) THEN StrValue(<<>>)
    ELSE IF v.kind = "str" THEN StrValue(SelectSeq(lower(v.s), isalnum))
    ELSE Raised("AttributeError")

\* Line 228: any(r in k or k in r for r in requested_norms)
corresponds(k, requested_norms) ==
    \E r \in Range(requested_norms) : contains(k.s, r.s) \/ contains(r.s, k.s)

\* The first n elements of a sequence: s[:n].
first_n(s, n) == SubSeq(s, 1, Min({Len(s), n}))

\* Lines 211-233: _filter_validations_to_requested(validations, requested_items,
\* key_field), or the exception it raises. Iterating over a string that is not
\* empty ends in the .get of one of its characters.
_filter_validations_to_requested(validations, requested_items, key_field) ==
    LET norms == [k \in 1..Len(requested_items) |->
                     _norm_name(get_or_empty(requested_items[k], key_field))]
        requested_norms == SelectSeq(norms, LAMBDA x : x.kind = "str" /\ x.s # <<>>)
        vals == IF falsy(validations) THEN <<>> ELSE validations.items
        keys == [k \in 1..Len(vals) |-> _norm_name(get_or_empty(vals[k], "cert_limit_key"))]
        matching == SelectSeq([k \in 1..Len(vals) |-> k],
                              LAMBDA k : keys[k].s # <<>> /\ corresponds(keys[k], requested_norms))
        filtered == [j \in 1..Len(matching) |-> vals[matching[j]]]
    IN  IF requested_items = <<>> THEN ListValue(<<>>)
        ELSE IF first_raised(norms) # NoneValue THEN first_raised(norms)
        ELSE IF requested_norms = <<>> THEN ListValue(<<>>)
        ELSE IF ~falsy(validations) /\ validations.kind # "list" THEN Raised("AttributeError")
        ELSE IF first_raised(keys) # NoneValue THEN first_raised(keys)
        ELSE IF filtered = <<>> THEN ListValue(first_n(vals, Len(requested_items)))
        ELSE ListValue(first_n(filtered, Len(requested_items)))

\* (v.get("status") or "").upper(), or the exception it raises.
status_upper(v) ==
    IF v.kind # "dict" THEN Raised("AttributeError")
    ELSE IF falsy(dict_get(v, "status")) THEN StrValue(<<>>)
    ELSE IF dict_get(v, "status").kind = "str" THEN StrValue(upper(dict_get(v, "status").s))
    ELSE Raised("AttributeError")

\* The number of statuses equal to status.
count_of(statuses, status) ==
    Cardinality({k \in 1..Len(statuses) : statuses[k] = StrValue(<<status>>)})

\* _count(arr) of the two _recompute_summary_counts, or the exception it raises.
_count(arr) ==
    IF ~falsy(arr) /\ arr.kind # "list" THEN Raised("AttributeError")
    ELSE LET vals == IF falsy(arr) THEN <<>> ELSE arr.items
             statuses == [k \in 1..Len(vals) |-> status_upper(vals[k])]
         IN  IF first_raised(statuses) # NoneValue THEN first_raised(statuses)
             ELSE [kind |-> "counts",
                   total |-> Len(vals),
                   match |-> count_of(statuses, "MATCH"),
                   mismatch |-> count_of(statuses, "MISMATCH"),
                   not_found |-> count_of(statuses, "NOT_FOUND")]


\* The lists of validations of the report of each validator.
Sections(which) ==
    IF which = "gl"
    THEN <<"cgl_limit_validations", "umbrella_limit_validations", "epl_limit_validations",
           "liquor_limit_validations">>
    ELSE IF which = "ai" THEN <<"additional_interests_validations">>
    ELSE <<"building_validations">>

\* Lines 497-517 of llm_gl_pol_cov.py: the four lists of results filtered, or the
\* first exception raised.
filter_results(res, items) ==
    LET keys == Sections("gl")
        filtered == [k \in 1..Len(keys) |->
                        _filter_validations_to_requested(dict_get(res, keys[k]), items[keys[k]],
                                                         "limit_key")]
    IN  IF first_raised(filtered) # NoneValue THEN first_raised(filtered)
        ELSE DictValue([k \in Range(keys) |->
                           filtered[CHOOSE j \in 1..Len(keys) : keys[j] = k]] @@ res.entries)

\* The sum of one count over the lists.
RECURSIVE sum_of(_, _)
sum_of(counts, field) ==
    IF counts = <<>> THEN 0 ELSE counts[1][field] + sum_of(Tail(counts), field)

\* Lines 235-266 of llm_gl_pol_cov.py: results after _recompute_summary_counts, or
\* the exception it raises.
gl_recompute_summary_counts(res) ==
    LET counts == [k \in 1..4 |-> _count(dict_get(res, Sections("gl")[k]))]
    IN  IF first_raised(counts) # NoneValue THEN first_raised(counts)
        ELSE set_key(res, "summary",
                     DictValue(("total_limits" :> IntValue(sum_of(counts, "total")))
                               @@ ("matched" :> IntValue(sum_of(counts, "match")))
                               @@ ("mismatched" :> IntValue(sum_of(counts, "mismatch")))
                               @@ ("not_found" :> IntValue(sum_of(counts, "not_found")))
                               @@ ("total_cgl_limits" :> IntValue(counts[1].total))
                               @@ ("total_umbrella_limits" :> IntValue(counts[2].total))
                               @@ ("total_epl_limits" :> IntValue(counts[3].total))
                               @@ ("total_liquor_limits" :> IntValue(counts[4].total))))

\* Lines 154-177 of pl_cov_additional_interests.py: results after
\* _recompute_summary_counts, or the exception it raises.
ai_recompute_summary_counts(res) ==
    LET counts == _count(dict_get(res, "additional_interests_validations"))
        summary == IF falsy(dict_get(res, "summary")) THEN EmptyDict
                   ELSE dict_get(res, "summary")
    IN  IF counts.kind = "raised" THEN counts
        ELSE IF summary.kind # "dict" THEN Raised("AttributeError")
        ELSE set_key(res, "summary",
                     DictValue(("total_additional_interests" :> IntValue(counts.total))
                               @@ ("additional_interests_matched" :> IntValue(counts.match))
                               @@ ("additional_interests_mismatched"
                                     :> IntValue(counts.mismatch))
                               @@ ("additional_interests_not_found"
                                     :> IntValue(counts.not_found))
                               @@ summary.entries))

\* s.replace(old, ""): every occurrence, from the left.
RECURSIVE remove_all(_, _)
remove_all(t, old) ==
    IF Len(t) < Len(old) THEN t
    ELSE IF SubSeq(t, 1, Len(old)) = old THEN remove_all(SubSeq(t, Len(old) + 1, Len(t)), old)
    ELSE <<t[1]>> \o remove_all(Tail(t), old)

\* s.replace(old, new) of one character by another.
replace_char(t, old, new) == [k \in 1..Len(t) |-> IF t[k] = old THEN new ELSE t[k]]

\* Line 126: suffixes.
suffixes ==
    <<<<"SP", "L", "L", "C">>,
      <<"SP", "I", "N", "C">>,
      <<"SP", "C", "O", "R", "P">>,
      <<"SP", "L", ".", "L", ".", "C", ".">>,
      <<"SP", "I", ".", "N", ".", "C", ".">>,
      <<"SP", "C", "O", "R", "P", ".">>>>

\* Lines 127-131: the name in upper case without the suffixes.
RECURSIVE without_suffixes(_, _)
without_suffixes(n, todo) ==
    IF todo = <<>> THEN n ELSE without_suffixes(remove_all(n, Head(todo)), Tail(todo))

\* Line 141: common_errors.
common_errors ==
    <<<<"G", "H">>, <<"H", "G">>, <<"O", "0">>, <<"0", "O">>, <<"I", "1">>, <<"1", "I">>>>

\* Lines 142-146: the name and what the common errors make of it.
variants(n) ==
    {n} \cup {replace_char(n, common_errors[k][1], common_errors[k][2]) :
                k \in 1..Len(common_errors)}

\* Lines 113-152 of pl_cov_additional_interests.py: _is_name_variation(name1, name2).
_is_name_variation(name1, name2) ==
    LET n1 == without_suffixes(upper(name1), suffixes)
        n2 == without_suffixes(upper(name2), suffixes)
    IN  \/ /\ Len(n1) = Len(n2)
           /\ Cardinality({k \in 1..Len(n1) : n1[k] # n2[k]}) <= 2
           /\ Len(n1) > 5
        \/ /\ Len(n1) > 8
           /\ Len(n2) > 8
           /\ variants(n1) \cap variants(n2) # {}

\* (validation.get(k) or "").upper(), or the exception it raises.
name_upper(validation, k) ==
    IF validation.kind # "dict" THEN Raised("AttributeError")
    ELSE IF falsy(dict_get(validation, k)) THEN StrValue(<<>>)
    ELSE IF dict_get(validation, k).kind = "str" THEN StrValue(upper(dict_get(validation, k).s))
    ELSE Raised("AttributeError")

\* Lines 481-482: cert_name and policy_name are there and differ.
names_differ(validation) ==
    /\ name_upper(validation, "cert_interest_name").s # <<>>
    /\ name_upper(validation, "policy_interest_name").s # <<>>
    /\ name_upper(validation, "cert_interest_name") # name_upper(validation, "policy_interest_name")

\* Line 490: the note of a name variation.
variation_note == StrValue(<<"Name mismatch detected (likely OCR error)">>)

\* Lines 479-490 that leave every validation as the collaborator returned it.
override_name_variation_none(validation) ==
    IF name_upper(validation, "cert_interest_name").kind = "raised"
    THEN name_upper(validation, "cert_interest_name")
    ELSE IF name_upper(validation, "policy_interest_name").kind = "raised"
    THEN name_upper(validation, "policy_interest_name")
    ELSE validation

\* Lines 479-490: one round of the loop, or the exception it raises.
override_name_variation(validation) ==
    IF name_upper(validation, "cert_interest_name").kind = "raised"
    THEN name_upper(validation, "cert_interest_name")
    ELSE IF name_upper(validation, "policy_interest_name").kind = "raised"
    THEN name_upper(validation, "policy_interest_name")
    ELSE IF /\ names_differ(validation)
            /\ _is_name_variation(name_upper(validation, "cert_interest_name").s,
                                  name_upper(validation, "policy_interest_name").s)
    THEN LET marked == set_key(set_key(validation, "status", StrValue(<<"MISMATCH">>)),
                               "match_type", StrValue(<<"NAME_VARIATION">>))
         IN  IF falsy(dict_get(validation, "notes"))
             THEN set_key(marked, "notes", variation_note)
             ELSE marked
    ELSE validation

\* Lines 478-490: results after the loop, or the exception raised.
override_name_variations(res) ==
    LET validations == IF "additional_interests_validations" \in DOMAIN res.entries
                       THEN res.entries["additional_interests_validations"]
                       ELSE ListValue(<<>>)
    IN  IF validations.kind = "null" THEN Raised("TypeError")
        ELSE IF validations.kind # "list" THEN Raised("AttributeError")
        ELSE LET done == [k \in 1..Len(validations.items) |->
                             override_name_variation(validations.items[k])]
             IN  IF first_raised(done) # NoneValue THEN first_raised(done)
                 ELSE IF "additional_interests_validations" \in DOMAIN res.entries
                 THEN set_key(res, "additional_interests_validations", ListValue(done))
                 ELSE res


\* The report of lines 393-404 of pl_cov_additional_interests.py: nothing to validate.
empty_report ==
    DictValue(("additional_interests_validations" :> ListValue(<<>>))
              @@ ("summary" :> DictValue(("total_additional_interests" :> IntValue(0))
                                         @@ ("additional_interests_matched" :> IntValue(0))
                                         @@ ("additional_interests_mismatched" :> IntValue(0))
                                         @@ ("additional_interests_not_found" :> IntValue(0))))
              @@ ("qc_notes"
                    :> StrValue(<<"No additional interests on certificate to validate.">>)))

\* results["metadata"] = {...}
with_metadata(res) == set_key(res, "metadata", DictValue("model" :> StrValue(<<"gpt-4o-mini">>)))

\* The certificate holds nothing to validate.
nothing_requested == \A k \in DOMAIN requested : requested[k] = <<>>

\* The certificate is read and its items extracted: lines 439-455 of
\* llm_gl_pol_cov.py, 384-406 of pl_cov_additional_interests.py, 430-444 of
\* llm_pl_pol_cov.py. Without items, only the additional interests validator saves.
LoadCertificate ==
    /\ validate_pc = "start"
    /\ IF nothing_requested
       THEN /\ validate_pc' = "returned"
            /\ report' = IF validator = "ai" THEN empty_report ELSE report
       ELSE /\ validate_pc' = "loaded"
            /\ report' = report
    /\ UNCHANGED <<earlierVars, extractVars, mainVars, ocrVars, headingVars, validator, requested, result_text, results>>

\* The call of the collaborator and json.loads of its answer: lines 479-491 of
\* llm_gl_pol_cov.py, 451-464 of pl_cov_additional_interests.py, 480-493 of
\* llm_pl_pol_cov.py. An exception leaves the validator.
CallCollaborator(responses) ==
    /\ validate_pc = "loaded"
    /\ \E response \in responses :
         /\ result_text' = response
         /\ IF response.kind = "raised"
            THEN /\ validate_pc' = "raised"
                 /\ results' = results
            ELSE /\ validate_pc' = "called"
                 /\ results' = response
    /\ UNCHANGED <<earlierVars, extractVars, mainVars, ocrVars, headingVars, validator, requested, report>>

\* The step of a validator from results to next_results, or out with an exception.
Step(from, to, next_results) ==
    /\ validate_pc = from
    /\ IF results.kind # "dict" \/ next_results.kind = "raised"
       THEN /\ validate_pc' = "raised"
            /\ results' = results
       ELSE /\ validate_pc' = to
            /\ results' = next_results
    /\ UNCHANGED <<earlierVars, extractVars, mainVars, ocrVars, headingVars, validator, requested, result_text, report>>

\* Lines 493-517 of llm_gl_pol_cov.py: the guardrail.
FilterValidations ==
    /\ validator = "gl"
    /\ Step("called", "ready", IF results.kind = "dict" THEN filter_results(results, requested)
                               ELSE Raised("AttributeError"))

\* Lines 466-490 of pl_cov_additional_interests.py: the metadata and the overrides.
OverrideNameVariations ==
    /\ validator = "ai"
    /\ Step("called", "ready", IF results.kind = "dict"
                               THEN override_name_variations(with_metadata(results))
                               ELSE Raised("TypeError"))

\* Line 518 of llm_gl_pol_cov.py, line 492 of pl_cov_additional_interests.py.
RecomputeSummaryCounts ==
    /\ validator \in {"gl", "ai"}
    /\ Step("ready", "recomputed", IF validator = "gl" THEN gl_recompute_summary_counts(results)
                                   ELSE ai_recompute_summary_counts(results))

\* The validator can save: the building validator as soon as the collaborator
\* answered.
can_save ==
    \/ validator = "pl" /\ validate_pc = "called"
    \/ validator \in {"gl", "ai"} /\ validate_pc = "recomputed"

\* json.dump(results, f): lines 520-535 of llm_gl_pol_cov.py, 503 of
\* pl_cov_additional_interests.py, 495-512 of llm_pl_pol_cov.py.
SaveResults ==
    /\ can_save
    /\ IF results.kind # "dict"
       THEN /\ validate_pc' = "raised"
            /\ report' = report
            /\ results' = results
       ELSE /\ validate_pc' = "returned"
            /\ results' = IF validator = "ai" THEN results ELSE with_metadata(results)
            /\ report' = results'
    /\ UNCHANGED <<earlierVars, extractVars, mainVars, ocrVars, headingVars, validator, requested, result_text>>


\* An item of extract_cgl_limits and the like: lines 74-84 of llm_gl_pol_cov.py.
LimitItem(key) == DictValue(("limit_key" :> StrValue(key)) @@ ("value" :> OneMillionWithCommas))

each_occurrence == <<"e", "a", "c", "h", "_", "o", "c", "c", "u", "r", "r", "e", "n", "c", "e">>
general_aggregate == <<"g", "e", "n", "e", "r", "a", "l", "_", "a", "g", "g", "r", "e", "g", "a", "t", "e">>
aggregate == <<"a", "g", "g", "r", "e", "g", "a", "t", "e">>
each_limit == <<"e", "a", "c", "h", "_", "l", "i", "m", "i", "t">>

\* The items of the four coverages of a certificate.
LimitRequests ==
    {("cgl_limit_validations" :> cgl) @@ ("umbrella_limit_validations" :> umbrella)
       @@ ("epl_limit_validations" :> epl) @@ ("liquor_limit_validations" :> liquor) :
        cgl \in {<<>>, <<LimitItem(each_occurrence)>>,
                 <<LimitItem(each_occurrence), LimitItem(general_aggregate)>>},
        umbrella \in {<<>>, <<LimitItem(aggregate)>>},
        epl \in {<<>>, <<LimitItem(each_limit)>>},
        liquor \in {<<>>, <<LimitItem(each_limit)>>}}

\* The statuses the collaborator writes.
Statuses == {StrValue(<<"MATCH">>), StrValue(<<"Mismatch">>), StrValue(<<"NOT_FOUND">>)}

\* The validations of limits the collaborator returns.
LimitValidations ==
    {NoneValue}
    \cup {DictValue(e) :
            e \in Merged(Optional("cert_limit_key",
                                  {StrValue(each_occurrence), StrValue(<<"E", "a", "c", "h", "SP", "O", "c", "c", "u", "r", "r", "e", "n", "c", "e">>),
                                   StrValue(aggregate), StrValue(<<"f", "i", "r", "e">>), IntValue(1)}),
                         {"status" :> st : st \in {StrValue(<<"MATCH">>), StrValue(<<"Mismatch">>)}},
                         {<<>>})}

\* The lists of at most two elements of a set, as values.
ListsOf(elements) ==
    {ListValue(<<>>)} \cup {ListValue(<<x>>) : x \in elements}
    \cup {ListValue(<<x, y>>) : x \in elements, y \in elements}

\* A summary the collaborator wrote by itself.
StaleSummary(total_key) ==
    DictValue((total_key :> IntValue(7)) @@ ("matched" :> IntValue(7))
              @@ ("mismatched" :> IntValue(0)) @@ ("not_found" :> IntValue(0))
              @@ ("confidence" :> StrValue(<<"high">>)))

\* What the call of the collaborator gives the limits validator.
LimitResponses ==
    {Raised("APIError"), Raised("JSONDecodeError"), ListValue(<<>>)}
    \cup {DictValue(e) :
            e \in Merged(Optional("cgl_limit_validations",
                                  ListsOf(LimitValidations) \cup {NoneValue, StrValue(<<"x">>)}),
                         Optional("umbrella_limit_validations",
                                  {ListValue(<<DictValue(("cert_limit_key" :> StrValue(<<"f", "i", "r", "e">>))
                                                         @@ ("status" :> StrValue(<<"MATCH">>)))>>)}),
                         Optional("summary", {StaleSummary("total_limits")}))}

GARDEN == <<"G", "A", "R", "D", "E", "N">>
garden == <<"g", "a", "r", "d", "e", "n">>
GARDEM == <<"G", "A", "R", "D", "E", "M">>
HARBOR == <<"H", "A", "R", "B", "O", "R">>
GARDEN_LLC == <<"G", "A", "R", "D", "E", "N", "SP", "L", "L", "C">>
ACME == <<"A", "C", "M", "E">>
HIGH_HILL == <<"H", "I", "G", "H", "SP", "H", "I", "L", "L">>
GIGG_GILL == <<"G", "I", "G", "G", "SP", "G", "I", "L", "L">>

\* The names of an additional interest as the collaborator returns them.
InterestNames ==
    {NoneValue, StrValue(<<>>), IntValue(1)}
    \cup {StrValue(n) : n \in {GARDEN, garden, GARDEM, HARBOR, GARDEN_LLC, ACME, HIGH_HILL,
                               GIGG_GILL}}

\* The validations of additional interests the collaborator returns.
InterestValidations ==
    {DictValue(e) :
        e \in Merged(Merged(Optional("cert_interest_name", InterestNames),
                            Optional("policy_interest_name", InterestNames),
                            Optional("status", Statuses \ {StrValue(<<"NOT_FOUND">>)})),
                     Optional("notes", {StrValue(<<"x">>)}),
                     Optional("match_type", {StrValue(<<"EXACT">>)}))}

\* What the call of the collaborator gives the additional interests validator.
InterestResponses ==
    {Raised("APIError"), ListValue(<<>>)}
    \cup {DictValue(e) :
            e \in Merged(Optional("additional_interests_validations",
                                  {NoneValue, ListValue(<<NoneValue>>)}
                                  \cup {ListValue(<<v>>) : v \in InterestValidations}
                                  \cup {ListValue(<<DictValue("status" :> st), v>>) :
                                          st \in {StrValue(<<"NOT_FOUND">>), IntValue(1)},
                                          v \in InterestValidations}),
                         Optional("summary", {StaleSummary("total_additional_interests"),
                                              ListValue(<<NoneValue>>)}),
                         {<<>>})}

\* What the call of the collaborator gives the building validator.
BuildingResponses ==
    {Raised("APIError"), ListValue(<<>>)}
    \cup {DictValue(e) :
            e \in Merged(Optional("building_validations",
                                  ListsOf({DictValue("status" :> st) : st \in Statuses})),
                         Optional("summary",
                                  {StaleSummary("total_buildings"),
                                   DictValue(("total_buildings" :> IntValue(1))
                                             @@ ("matched" :> IntValue(1))
                                             @@ ("mismatched" :> IntValue(0))
                                             @@ ("not_found" :> IntValue(0)))}),
                         {<<>>})}

\* The answers of the collaborator to the validator that runs.
Collaborator ==
    IF validator = "gl" THEN LimitResponses
    ELSE IF validator = "ai" THEN InterestResponses
    ELSE BuildingResponses

InitValidate ==
    /\ StartEarlier
    /\ NoOthers
    /\ StartResponse(NotCalled)
    /\ StartMain(FALSE, NotCalled, <<NoneValue, NoneValue>>, FALSE)
    /\ \/ \E items \in LimitRequests : StartValidate("gl", items)
       \/ \E items \in {<<>>, <<DictValue("name" :> StrValue(GARDEN))>>} :
            StartValidate("ai", "additional_interests_validations" :> items)
       \/ \E items \in {<<>>, <<DictValue("name" :> StrValue(<<"Building">>))>>} :
            StartValidate("pl", "building_validations" :> items)

NextValidate ==
    \/ LoadCertificate
    \/ CallCollaborator(Collaborator)
    \/ FilterValidations
    \/ OverrideNameVariations
    \/ RecomputeSummaryCounts
    \/ SaveResults

SpecValidate == InitValidate /\ [][NextValidate]_vars


---------------------------------------------------------------------------
\* Claims about the batch validators (checked under SpecValidate).

\* A report was written to output_path.
ReportSaved == report # NotCalled

\* The validations of all the lists of a report, one after the other.
records_in(rep) ==
    Concat([k \in 1..Len(Sections(validator)) |->
               IF dict_get(rep, Sections(validator)[k]).kind = "list"
               THEN dict_get(rep, Sections(validator)[k]).items
               ELSE <<>>])

\* The number of validations of a report with the status, in any case of letters.
records_with(rep, status) ==
    Cardinality({k \in 1..Len(records_in(rep)) :
                    status_upper(records_in(rep)[k]) = StrValue(<<status>>)})

\* The keys of the four counts in the summary of each validator.
summary_keys ==
    IF validator = "gl" THEN <<"total_limits", "matched", "mismatched", "not_found">>
    ELSE IF validator = "ai"
    THEN <<"total_additional_interests", "additional_interests_matched",
           "additional_interests_mismatched", "additional_interests_not_found">>
    ELSE <<"total_buildings", "matched", "mismatched", "not_found">>

\* The four counts recomputed from the validations of a report.
recomputed_counts(rep) ==
    <<IntValue(Len(records_in(rep))), IntValue(records_with(rep, "MATCH")),
      IntValue(records_with(rep, "MISMATCH")), IntValue(records_with(rep, "NOT_FOUND"))>>

\* The four counts the summary of a report shows, null for a count that is not there.
summary_counts(rep) ==
    [k \in 1..4 |-> IF dict_get(rep, "summary").kind = "dict"
                    THEN dict_get(dict_get(rep, "summary"), summary_keys[k])
                    ELSE NoneValue]

\* C22: in every report a validator saves, the counts of the summary are the counts
\* recomputed from the validations of the report: the total is their number, and
\* matched, mismatched and not_found are the numbers of validations with status
\* MATCH, MISMATCH and NOT_FOUND in any case of letters.
C22_SummaryRecomputedFromRecords ==
    ReportSaved => summary_counts(report) = recomputed_counts(report)

\* C24: every run of a batch validator that read its input writes a report before it
\* ends, also when the certificate holds nothing to validate: no run returns without
\* a report written.
C24_ReportWrittenBeforeReturn == [](validate_pc = "returned" => ReportSaved)

\* The keys of the requested items of a list, normalized.
requested_keys(section) ==
    [k \in 1..Len(requested[section]) |->
        _norm_name(get_or_empty(requested[section][k], "limit_key"))]

\* C26: what _filter_validations_to_requested returns for each list of validations
\* is empty when no item was requested, never longer than the list of requested
\* items, and holds only validations whose cert_limit_key corresponds to the key of
\* a requested item.
C26_OnlyRequestedValidations ==
    (validator = "gl" /\ validate_pc = "ready") =>
        \A section \in Range(Sections("gl")) :
            LET returned == dict_get(results, section).items
            IN  /\ requested[section] = <<>> => returned = <<>>
                /\ Len(returned) <= Len(requested[section])
                /\ \A k \in 1..Len(returned) :
                      /\ _norm_name(get_or_empty(returned[k], "cert_limit_key")).kind = "str"
                      /\ _norm_name(get_or_empty(returned[k], "cert_limit_key")).s # <<>>
                      /\ corresponds(_norm_name(get_or_empty(returned[k], "cert_limit_key")),
                                     requested_keys(section))

\* The validations of additional interests of a decoded report or answer.
interest_validations(rep) ==
    IF rep.kind = "dict" /\ dict_get(rep, "additional_interests_validations").kind = "list"
    THEN dict_get(rep, "additional_interests_validations").items
    ELSE <<>>

\* A validation with two names that differ in upper case and are a variation of
\* each other.
IsNameVariation(validation) ==
    /\ validation.kind = "dict"
    /\ name_upper(validation, "cert_interest_name").kind = "str"
    /\ name_upper(validation, "policy_interest_name").kind = "str"
    /\ names_differ(validation)
    /\ _is_name_variation(name_upper(validation, "cert_interest_name").s,
                          name_upper(validation, "policy_interest_name").s)

\* C27: in the report of validate_additional_interests, every validation whose two
\* names are there, differ without regard to case and are a name variation has the
\* status MISMATCH and the match type NAME_VARIATION, whatever the collaborator
\* answered; the summary is recomputed only after the overrides, from the statuses
\* they left, and the report saved is the one recomputed.
C27_NameVariationsEndMismatch ==
    /\ [][(validator = "ai" /\ validate_pc' = "recomputed")
            => /\ validate_pc = "ready"
               /\ interest_validations(results') = interest_validations(results)
               /\ summary_counts(results') = recomputed_counts(results)]_vars
    /\ []((validator = "ai" /\ validate_pc \in {"ready", "recomputed", "returned"}
           /\ result_text # NotCalled)
            => \A k \in 1..Len(interest_validations(results)) :
                  IsNameVariation(interest_validations(result_text)[k])
                    => /\ dict_get(interest_validations(results)[k], "status")
                            = StrValue(<<"MISMATCH">>)
                       /\ dict_get(interest_validations(results)[k], "match_type")
                            = StrValue(<<"NAME_VARIATION">>))
    /\ []((validator = "ai" /\ validate_pc = "returned" /\ result_text # NotCalled)
            => report = results /\ summary_counts(report) = recomputed_counts(report))

\* A report saved with a name variation the collaborator had called a match, counted
\* as mismatched.
C27_Witness ==
    /\ validator = "ai"
    /\ validate_pc = "returned"
    /\ result_text # NotCalled
    /\ \E k \in 1..Len(interest_validations(report)) :
          /\ IsNameVariation(interest_validations(result_text)[k])
          /\ dict_get(interest_validations(result_text)[k], "status") = StrValue(<<"MATCH">>)
          /\ dict_get(interest_validations(report)[k], "status") = StrValue(<<"MISMATCH">>)
    /\ summary_counts(report)[3] = IntValue(1)


---------------------------------------------------------------------------
\* extract_pdf_text of hartford/extract_policy_ocr2.py: the pages are handed to
\* parallel workers, the results sorted by page number and written to one file.

MaxOcrPages == 3

\* What the OCR of one page gives: its text, or an exception with its message.
\* str(e) is empty for an exception raised without a message, as MemoryError.
PageOutcomes ==
    {[kind |-> "text", s |-> <<"X">>], [kind |-> "text", s |-> <<>>],
     [kind |-> "raised", error |-> <<"message">>], [kind |-> "raised", error |-> <<>>]}

\* Lines 36-56: process_single_page on a page whose OCR ends in outcome.
process_single_page(page_num, outcome) ==
    IF outcome.kind = "raised"
    THEN [page_num |-> page_num, text |-> NoneValue, error |-> StrValue(outcome.error)]
    ELSE [page_num |-> page_num, text |-> StrValue(outcome.s), error |-> NoneValue]

\* Line 101: results.sort(key=lambda x: x[0]).
RECURSIVE sort_results(_)
sort_results(rs) ==
    IF rs = <<>> THEN <<>>
    ELSE LET rest == sort_results(SubSeq(rs, 1, Len(rs) - 1))
             last == rs[Len(rs)]
             before == SelectSeq(rest, LAMBDA r : r.page_num <= last.page_num)
             after == SelectSeq(rest, LAMBDA r : r.page_num > last.page_num)
         IN  before \o <<last>> \o after

\* Line 110: the note written for a page whose OCR failed.
error_note(page_num, message) ==
    <<"NL", "[ERROR ON PAGE", "SP">> \o Digits(page_num) \o <<":", "SP">> \o message
      \o <<"]", "NL">>

\* Lines 105-113: what one result appends to all_text.
text_of_page(r) ==
    <<StrValue(PageMarker(r.page_num)),
      IF truthy(r.error) THEN StrValue(error_note(r.page_num, r.error.s)) ELSE r.text>>

\* A worker finishes its page (lines 92-95). joblib collects the results; the
\* sort of line 101 is what orders them here.
WorkerFinishes ==
    /\ ocr_pc = "workers"
    /\ \E page_num \in waiting, outcome \in PageOutcomes :
         /\ waiting' = waiting \ {page_num}
         /\ ocr_results' = Append(ocr_results, process_single_page(page_num, outcome))
    /\ UNCHANGED <<earlierVars, extractVars, mainVars, validateVars, headingVars, num_pages, all_text,
                   written, ocr_pc>>

\* Lines 100-113: the results sorted and all_text built.
BuildText ==
    /\ ocr_pc = "workers"
    /\ waiting = {}
    /\ ocr_results' = sort_results(ocr_results)
    /\ all_text' = Concat([k \in 1..Len(ocr_results') |-> text_of_page(ocr_results'[k])])
    /\ ocr_pc' = "built"
    /\ UNCHANGED <<earlierVars, extractVars, mainVars, validateVars, headingVars, num_pages, waiting,
                   written>>

\* Lines 115-126: the file is opened for writing, and ''.join(all_text) raises
\* TypeError on an element that is None; extract_pdf_text then returns False.
SaveText ==
    /\ ocr_pc = "built"
    /\ IF \E k \in 1..Len(all_text) : all_text[k] = NoneValue
       THEN /\ written' = StrValue(<<>>)
            /\ ocr_pc' = "returned False"
       ELSE /\ written' = StrValue(Concat([k \in 1..Len(all_text) |-> all_text[k].s]))
            /\ ocr_pc' = "returned True"
    /\ UNCHANGED <<earlierVars, extractVars, mainVars, validateVars, headingVars, num_pages, waiting,
                   ocr_results, all_text>>

InitOcr ==
    \E n \in 0..MaxOcrPages :
        /\ StartEarlier
        /\ StartResponse(NotCalled)
        /\ StartMain(FALSE, NotCalled, <<NoneValue, NoneValue>>, FALSE)
        /\ NoValidate
        /\ StartOcr(n)
        /\ NoHeadings

NextOcr == WorkerFinishes \/ BuildText \/ SaveText

SpecOcr == InitOcr /\ [][NextOcr]_vars

---------------------------------------------------------------------------
\* Claims about extract_pdf_text (checked under SpecOcr).

\* The result of a page.
result_of(page_num) == CHOOSE r \in Range(ocr_results) : r.page_num = page_num

\* The block of a page in the file: its marker, then its text or its error note.
expected_block(page_num) ==
    PageMarker(page_num)
      \o (IF result_of(page_num).error = NoneValue THEN result_of(page_num).text.s
          ELSE error_note(page_num, result_of(page_num).error.s))

\* C25: whatever the order in which the workers finish, the text written holds one
\* marker block for each page 1..N, once and in ascending order of the pages, and a
\* page whose OCR failed has its marker followed by an error note.
C25_OneBlockPerPageInOrder ==
    (ocr_pc \in {"returned True", "returned False"})
        => written = StrValue(Concat([p \in 1..num_pages |-> expected_block(p)]))

---------------------------------------------------------------------------
\* find_headings, extract_pages_after_heading and process_all_headings
\* (nationwide/qc_head.py)

\* get_page_from_char_position(char_pos) of an extractor with the page
\* boundaries b: the first page, in the order of the page starts, whose span
\* holds the position; the first page for a position before it; else the last.
get_page_from_char_position(b, char_pos) ==
    IF DOMAIN b = {} THEN 1
    ELSE LET by_start == sorted_by_start(b, DOMAIN b)
             holding == {k \in 1..Len(by_start) :
                            by_start[k][2] <= char_pos /\ char_pos < by_start[k][3]}
         IN  IF holding # {} THEN by_start[Min(holding)][1]
             ELSE IF char_pos < by_start[1][2] THEN by_start[1][1]
             ELSE by_start[Len(by_start)][1]

\* The result of extract_pages_after_heading: the text and, of the validation
\* record, the pages, the status and the character span.
Extracted(text, start_page, end_page, status, warned, char_start, char_end) ==
    [text |-> text, start_page |-> start_page, end_page |-> end_page, status |-> status,
     warned |-> warned, char_start |-> char_start, char_end |-> char_end]

\* Lines 188-201: the page the extraction ends with is the num_pages-th of the
\* pages the document has from the start page on, or the last of them.
end_page_by_count(available_pages, pages_requested) ==
    IF Len(available_pages) >= pages_requested
    THEN available_pages[IF pages_requested >= 1 THEN pages_requested ELSE Len(available_pages)]
    ELSE available_pages[Len(available_pages)]

\* extract_pages_after_heading(heading_char_pos, num_pages) on the text t
\* with the page boundaries b.
extract_pages_after_heading(t, b, heading_char_pos, pages_requested) ==
    LET start_page == get_page_from_char_position(b, heading_char_pos)
    IN  IF start_page \notin DOMAIN b
        THEN Extracted(<<>>, start_page, start_page, "error", FALSE, -1, -1)
        ELSE LET start_char == b[start_page][1]
                 available_pages == Ascending({p \in DOMAIN b : p >= start_page})
                 end_page == end_page_by_count(available_pages, pages_requested)
                 end_char == Min({b[end_page][2], Len(t)})
                 warned == Len(available_pages) < pages_requested
             IN  IF start_char >= end_char
                 THEN Extracted(<<>>, start_page, end_page, "error", warned, -1, -1)
                 ELSE Extracted(Slice(t, start_char, end_char), start_page, end_page,
                                "success", warned, start_char, end_char)

\* f'Pages {start_page}-{end_page}'
match_text_of(start_page, end_page) ==
    <<"Pages", "SP">> \o Digits(start_page) \o <<"-">> \o Digits(end_page)

\* Lines 344-356: the HeadingMatch of one merged range.
HeadingMatch(b, r) ==
    [match_text |-> match_text_of(r[1], r[2]), char_position |-> b[r[1]][1],
     page_number |-> r[1]]

\* find_headings without its two searches: a HeadingMatch for each merged
\* range whose start page the document has.
heading_matches(b, ranges) ==
    LET found == SelectSeq(ranges, LAMBDA r : r[1] \in DOMAIN b)
    IN  [k \in 1..Len(found) |-> HeadingMatch(b, found[k])]

\* text.replace('Pages ', '') of a text that starts with it.
without_pages(text) ==
    IF Len(text) >= 2 /\ text[1] = "Pages" /\ text[2] = "SP" THEN Slice(text, 2, Len(text))
    ELSE text

\* text.split(sep)
RECURSIVE split(_, _)
split(text, sep) ==
    IF \A k \in 1..Len(text) : text[k] # sep THEN <<text>>
    ELSE LET k == Min({j \in 1..Len(text) : text[j] = sep})
         IN  <<SubSeq(text, 1, k - 1)>> \o split(SubSeq(text, k + 1, Len(text)), sep)

\* int(part) succeeds on a run of digits.
is_int(part) == part # <<>> /\ \A k \in 1..Len(part) : part[k] \in Digit

\* Lines 405-415: <<range_start, range_end, num_pages>> parsed from the text of
\* the match, with the fallback of the except clause.
parsed_range(match) ==
    LET range_parts == split(without_pages(match.match_text), "-")
    IN  IF Len(range_parts) >= 2 /\ is_int(range_parts[1]) /\ is_int(range_parts[2])
        THEN LET range_start == IntOf(range_parts[1], 0, Len(range_parts[1]))
                 range_end == IntOf(range_parts[2], 0, Len(range_parts[2]))
             IN  <<range_start, range_end, range_end - range_start + 1>>
        ELSE <<match.page_number, match.page_number + 4, 5>>

\* Lines 403-422: what the loop of process_all_headings extracts for one match.
extraction_of(t, b, match) ==
    LET r == parsed_range(match)
    IN  [range |-> <<r[1], r[2]>>, pages_requested |-> r[3],
         extracted |-> extract_pages_after_heading(t, b, match.char_position, r[3])]

\* The content of a page of a generated document: a word, a $ amount that
\* qualifies, or nothing.
HeadingContents == {<<"X">>, <<"$", "SP", "2", "0", "0">>, <<>>}

\* The sequences of distinct page numbers of 1..MaxPage.
PageOrders ==
    UNION {{ps \in [1..k -> 1..MaxPage] : \A x, y \in 1..k : x # y => ps[x] # ps[y]}
           : k \in 1..MaxPage}

\* The files the OCR tools write, and what is left of them when pages are
\* missing or the files of two tools were put together: the markers of some
\* pages of 1..MaxPage in any order, each followed by the content of the page.
HeadingDocuments ==
    UNION {{Concat([k \in 1..Len(ps) |-> PageMarker(ps[k]) \o cs[k]])
            : cs \in [1..Len(ps) -> HeadingContents]} : ps \in PageOrders}

InitHeadings == \E text \in HeadingDocuments : Start(text)

\* process_all_headings: find_headings (the pages with $ amounts, their ranges
\* merged with a buffer of 1, a match per range) and the extraction of the
\* pages of each match.
ProcessAllHeadings ==
    /\ pc = "ready"
    /\ "process_all_headings" \notin called
    /\ pages_with_dollars' = find_pages_with_dollar_amounts(policy_text, boundaries)
    /\ pages' = pages_with_dollars'
    /\ buffer' = 1
    /\ merged' = merge_page_ranges(boundaries, pages', buffer')
    /\ extractions' = LET ms == heading_matches(boundaries, merged')
                      IN  [k \in 1..Len(ms) |-> extraction_of(policy_text, boundaries, ms[k])]
    /\ called' = called \cup {"find_pages_with_dollar_amounts", "merge_page_ranges",
                              "process_all_headings"}
    /\ UNCHANGED <<policy_text, extractorVars, splitVars, combineVars, expandVars, filterVars,
                   normalizeVars, qcVars, extractVars, mainVars, validateVars, ocrVars>>

NextHeadings == NewExtractor \/ ProcessAllHeadings

SpecHeadings == InitHeadings /\ [][NextHeadings]_vars

---------------------------------------------------------------------------
\* Claims about process_all_headings (checked under SpecHeadings).

\* The pages of which the extracted text x holds at least one character.
pages_in(x) ==
    IF x.extracted.status # "success" THEN {}
    ELSE {p \in DOMAIN boundaries :
             /\ boundaries[p][1] < boundaries[p][2]
             /\ boundaries[p][1] < x.extracted.char_end
             /\ boundaries[p][2] > x.extracted.char_start}

\* C28: for each merged range (s, e) that process_all_headings extracts, the
\* text taken by extract_pages_after_heading holds only pages whose number
\* lies in [s, e], also when page numbers are missing from the document or
\* the markers are not in ascending order.
C28_OnlyPagesOfTheRange ==
    "process_all_headings" \in called =>
        \A k \in 1..Len(extractions) :
            \A p \in pages_in(extractions[k]) :
                extractions[k].range[1] <= p /\ p <= extractions[k].range[2]

====
